---- MODULE Spec2Model ----
(***************************************************************************)
(* Vent: the event-to-SQL projection engine of bosmarmot.                  *)
(*                                                                         *)
(* Part I   the database as the writer sees it: live tables, dictionary,   *)
(*          projection rows, the block log, and the statements the         *)
(*          adapters build (CREATE TABLE, ALTER TABLE, upsert, log insert).*)
(* Part II  SynchronizeDB and SetBlock as functions of the database.       *)
(* Part III SetBlock statement by statement inside its transaction.        *)
(***************************************************************************)
EXTENDS Integers, Sequences, FiniteSets, TLC

VARIABLES
    db,      \* committed database contents
    tx,      \* the open transaction's view of the database, or NoTx
    pc,      \* where SetBlock stands
    cur,     \* the running SetBlock call: arguments, locals, recursion depth
    pre,     \* database when the outermost SetBlock was called
    env,     \* what the surroundings may still do: calls, drops, faults
    sync,    \* two SynchronizeDB calls in a row: database, catalog, results
    replay,  \* two databases fed the batches a; b and a; a; b
    rcv,     \* Consumer.Run: the goroutine that receives blocks
    mainp,   \* Consumer.Run: the main loop and the goroutine waiting on the WaitGroup
    net,     \* Consumer.Closing, the gRPC connection and the block stream
    cdb,     \* the database Consumer.Run writes to
    hist,    \* what happened so far: SetBlock calls, kills, failures, shutdown
    flt,     \* Consumer.Run with one goroutine per event specification: the goroutines
    fmain,   \* ... and its main loop with the SetBlock calls it made
    ks,      \* SynchronizeDB statement by statement, and the kills of the process
    drift,   \* a write, a drop from outside, the next write (PostgreSQL adapter queries)
    rowsv,   \* the rows of one table of a batch, applied one after the other
    fn,      \* a function of the parser or of an adapter: its input, then its result
    con      \* the Consumer as the command sees it: Run's progress, Closing, GRPCConnection, Shutdown

dbVars == <<db, tx, pc, cur, pre, env>>
syncVars == <<sync>>
replayVars == <<replay>>
runVars == <<rcv, mainp, net, cdb, hist>>
filterVars == <<flt, fmain>>
killVars == <<ks>>
driftVars == <<drift>>
rowVars == <<rowsv>>
fnVars == <<fn>>
conVars == <<con>>

vars == <<dbVars, syncVars, replayVars, runVars, filterVars, killVars, driftVars, rowVars, fnVars, conVars>>

\* what an action of one part leaves alone
besidesDB == <<syncVars, replayVars, runVars, filterVars, killVars, driftVars, rowVars, fnVars, conVars>>
besidesSync == <<dbVars, replayVars, runVars, filterVars, killVars, driftVars, rowVars, fnVars, conVars>>
besidesReplay == <<dbVars, syncVars, runVars, filterVars, killVars, driftVars, rowVars, fnVars, conVars>>
besidesRun == <<dbVars, syncVars, replayVars, filterVars, killVars, driftVars, rowVars, fnVars, conVars>>
besidesFilters == <<dbVars, syncVars, replayVars, runVars, killVars, driftVars, rowVars, fnVars, conVars>>
besidesKill == <<dbVars, syncVars, replayVars, runVars, filterVars, driftVars, rowVars, fnVars, conVars>>
besidesDrift == <<dbVars, syncVars, replayVars, runVars, filterVars, killVars, rowVars, fnVars, conVars>>
besidesRows == <<dbVars, syncVars, replayVars, runVars, filterVars, killVars, driftVars, fnVars, conVars>>
besidesFn == <<dbVars, syncVars, replayVars, runVars, filterVars, killVars, driftVars, rowVars, conVars>>
besidesCon == <<dbVars, syncVars, replayVars, runVars, filterVars, killVars, driftVars, rowVars, fnVars>>

-----------------------------------------------------------------------------
(* Part I: data *)

NULL == "NULL"
OK == "ok"

\* PostgreSQL error codes the writer looks at, and the two errors it raises itself
errDupColumn == "42701"
errDupTable == "42P07"
errInvalidType == "42704"
errUndefinedTable == "42P01"
errUndefinedColumn == "42703"
errGeneric == "generic"
errNullPK == "null primary key"
errTableDef == "table definition error"
errOverflow == "stack overflow"
errPanic == "index out of range"

\* a column of a declared table
SQLTableColumn(n, p, o) == [Name |-> n, Primary |-> p, Order |-> o]

\* two declared tables: a key with a value column, and a key alone
Table1 == [Name |-> "t1", Columns |-> <<SQLTableColumn("k", TRUE, 1), SQLTableColumn("v", FALSE, 2)>>]
Table2 == [Name |-> "t2", Columns |-> <<SQLTableColumn("k", TRUE, 1)>>]

AllTables == {Table1, Table2}
TableNames == {t.Name : t \in AllTables}
TableByName(n) == CHOOSE t \in AllTables : t.Name = n

\* the catalogs handed to SynchronizeDB and SetBlock
Catalogs == {{Table1, Table2}, {Table1}}

Range(s) == {s[i] : i \in DOMAIN s}
ColumnNames(table) == {c.Name : c \in Range(table.Columns)}
PrimaryNames(table) == {c.Name : c \in {x \in Range(table.Columns) : x.Primary}}

\* all orders in which a Go map of these tables may be ranged over
Orders(S) == {s \in [1..Cardinality(S) -> S] : \A i, j \in 1..Cardinality(S) : i # j => s[i] # s[j]}

NoLive == [exists |-> FALSE, cols |-> {}, pkey |-> FALSE]

\* a database holding the log tables and nothing else (after Open)
EmptyDB ==
    [live |-> [t \in TableNames |-> NoLive],
     dict |-> {},
     rows |-> [t \in TableNames |-> <<>>],
     log  |-> <<>>,
     det  |-> {},
     seq  |-> 0]

-----------------------------------------------------------------------------
(* Part I: statements against the database *)

\* CREATE TABLE name (cols..., CONSTRAINT name_pkey PRIMARY KEY (...))
ExecCreateTable(d, table) ==
    IF d.live[table.Name].exists
    THEN [err |-> errDupTable, db |-> d]
    ELSE [err |-> OK,
          db |-> [d EXCEPT !.live[table.Name] =
                     [exists |-> TRUE,
                      cols |-> ColumnNames(table),
                      pkey |-> PrimaryNames(table) # {}]]]

\* INSERT INTO _vent_dictionary ... : (table, column) is its primary key
ExecInsertDictionary(d, tname, cnames) ==
    IF \E c \in cnames : <<tname, c>> \in d.dict
    THEN [err |-> errGeneric, db |-> d]
    ELSE [err |-> OK, db |-> [d EXCEPT !.dict = @ \cup {<<tname, c>> : c \in cnames}]]

\* ALTER TABLE name ADD COLUMN col type
ExecAlterColumn(d, tname, cname) ==
    IF ~d.live[tname].exists THEN [err |-> errUndefinedTable, db |-> d]
    ELSE IF cname \in d.live[tname].cols THEN [err |-> errDupColumn, db |-> d]
    ELSE [err |-> OK, db |-> [d EXCEPT !.live[tname].cols = @ \cup {cname}]]

\* SELECT COUNT( * ) FROM _vent_dictionary WHERE _tablename = $1
FindTableQuery(d, tname) == Cardinality({p \in d.dict : p[1] = tname})

\* SELECT _columnname ... FROM _vent_dictionary WHERE _tablename = $1
TableDefinitionQuery(d, tname) == {p[2] : p \in {q \in d.dict : q[1] = tname}}

\* INSERT INTO _bosmarmot_log (registers, height) VALUES ($1, $2) RETURNING id
\* id is a serial: the sequence moves on even when the transaction is rolled back
ExecInsertLog(d, registers, height) ==
    [d EXCEPT !.seq = @ + 1,
              !.log = Append(@, [id |-> d.seq + 1, registers |-> registers, height |-> height])]

\* INSERT INTO _bosmarmot_logdet (id, tblname, tblmap, registers)
ExecInsertLogDet(d, id, tname, registers) ==
    [d EXCEPT !.det = @ \cup {[id |-> id, tblname |-> tname, registers |-> registers]}]

\* the upsert statement of a table: where each column is bound, and
\* whether a conflict on the primary key updates (some column is not a key) or does nothing
getUpsertQuery(table) ==
    LET cols == Len(table.Columns)
        before(i) == Cardinality({j \in 1..(i - 1) : ~table.Columns[j].Primary})
        nKeys == before(cols + 1)
        at(n) == CHOOSE i \in 1..cols : table.Columns[i].Name = n
    IN [table |-> table.Name,
        Columns |-> [n \in ColumnNames(table) |->
                        [InsPosition |-> at(n) - 1,
                         UpdPosition |-> IF table.Columns[at(n)].Primary THEN 0 ELSE cols + before(at(n))]],
        Length |-> cols + nKeys,
        doUpdate |-> nKeys # 0]

\* sql.NullString: the zero value is not valid
NullString(value, valid) == [String |-> value, Valid |-> valid]

\* the container at a position of the statement (positions count from 0): the
\* value of the column bound there if the row has it, not valid otherwise
Container(uQuery, row, pos) ==
    LET bound == {n \in DOMAIN uQuery.Columns :
                     \/ uQuery.Columns[n].InsPosition = pos
                     \/ uQuery.Columns[n].UpdPosition > 0 /\ uQuery.Columns[n].UpdPosition = pos}
    IN IF \E n \in bound : n \in DOMAIN row
       THEN NullString(row[CHOOSE n \in bound : n \in DOMAIN row], TRUE)
       ELSE NullString("", FALSE)

\* binds every column without a key that the row has
getUpsertParamsNoKeyCheck(uQuery, row) ==
    [err |-> OK,
     params |-> [n \in DOMAIN uQuery.Columns |-> IF n \in DOMAIN row THEN row[n] ELSE NULL],
     containers |-> [p \in 1..uQuery.Length |-> Container(uQuery, row, p - 1)]]

\* binds a row to the statement: an absent column is NULL, an absent key column is an error
getUpsertParams(uQuery, row) ==
    IF \E n \in DOMAIN uQuery.Columns : n \notin DOMAIN row /\ uQuery.Columns[n].UpdPosition = 0
    THEN [err |-> errNullPK, params |-> <<>>, containers |-> <<>>]
    ELSE [err |-> OK,
          params |-> [n \in DOMAIN uQuery.Columns |-> IF n \in DOMAIN row THEN row[n] ELSE NULL],
          containers |-> [p \in 1..uQuery.Length |-> Container(uQuery, row, p - 1)]]

\* the columns of the statement that make the conflict target
KeyColumns(uQuery) == {n \in DOMAIN uQuery.Columns : uQuery.Columns[n].UpdPosition = 0}

SameKey(uQuery, r, params) == \A n \in KeyColumns(uQuery) : r[n] = params[n]

\* INSERT INTO t (cols) VALUES (...) with no conflict clause: always another row
ExecInsert(d, uQuery, params) ==
    LET t == uQuery.table
        lv == d.live[t]
        stored == [n \in lv.cols |-> IF n \in DOMAIN params THEN params[n] ELSE NULL]
    IN IF ~lv.exists THEN [err |-> errUndefinedTable, db |-> d]
       ELSE IF ~(DOMAIN uQuery.Columns \subseteq lv.cols) THEN [err |-> errUndefinedColumn, db |-> d]
       ELSE [err |-> OK, db |-> [d EXCEPT !.rows[t] = Append(@, stored)]]

\* INSERT INTO t (cols) VALUES (...) ON CONFLICT ON CONSTRAINT t_pkey DO UPDATE SET ... / DO NOTHING
ExecUpsert(d, uQuery, params) ==
    LET t == uQuery.table
        lv == d.live[t]
        stored == [n \in lv.cols |-> IF n \in DOMAIN params THEN params[n] ELSE NULL]
        hit == {i \in 1..Len(d.rows[t]) : SameKey(uQuery, d.rows[t][i], params)}
    IN IF ~lv.exists THEN [err |-> errUndefinedTable, db |-> d]
       ELSE IF ~(DOMAIN uQuery.Columns \subseteq lv.cols) THEN [err |-> errUndefinedColumn, db |-> d]
       ELSE IF ~lv.pkey THEN [err |-> errInvalidType, db |-> d]
       ELSE IF hit = {} THEN [err |-> OK, db |-> [d EXCEPT !.rows[t] = Append(@, stored)]]
       ELSE IF uQuery.doUpdate
            THEN [err |-> OK,
                  db |-> [d EXCEPT !.rows[t] = [i \in 1..Len(@) |-> IF i \in hit THEN stored ELSE @[i]]]]
            ELSE [err |-> OK, db |-> d]

\* COALESCE(height, '0') that would hand the missing height on
CoalesceMissing(heights, default) == IF heights = {} THEN -1 ELSE CHOOSE h \in heights : TRUE

\* COALESCE(height, '0') over the heights the join yields: none when ll.id is NULL
COALESCE(heights, default) == IF heights = {} THEN default ELSE CHOOSE h \in heights : TRUE

\* the log row that was inserted first
GetFirstBlockID(d) ==
    LET ll == {d.log[i].id : i \in {j \in 1..Len(d.log) : \A k \in 1..Len(d.log) : d.log[k].id >= d.log[j].id}}
    IN COALESCE({d.log[i].height : i \in {j \in 1..Len(d.log) : d.log[j].id \in ll}}, 0)

\* WITH ll AS (SELECT MAX(id) id FROM log) SELECT COALESCE(height, '0') FROM ll LEFT OUTER JOIN log ON ll.id = log.id
GetLastBlockID(d) ==
    LET ll == {d.log[i].id : i \in {j \in 1..Len(d.log) : \A k \in 1..Len(d.log) : d.log[k].id <= d.log[j].id}}
    IN COALESCE({d.log[i].height : i \in {j \in 1..Len(d.log) : d.log[j].id \in ll}}, 0)

-----------------------------------------------------------------------------
(* Part II: SynchronizeDB *)

\* whether the dictionary knows the table
findTable(d, tname) == FindTableQuery(d, tname) # 0

\* the column names the dictionary holds for the table
getTableDef(d, tname) == TableDefinitionQuery(d, tname)

Unset == [Name |-> "", Primary |-> FALSE, Order |-> 0]

\* places every column at its Order; the result is the error or the sorted columns
RECURSIVE sortColumns(_, _, _)
sortColumns(columns, i, sorted) ==
    IF i > Len(columns) THEN [err |-> OK, sorted |-> sorted]
    ELSE LET c == columns[i] IN
         IF c.Order <= 0 THEN [err |-> errTableDef, sorted |-> sorted]
         ELSE IF c.Order - 1 > Len(columns) THEN [err |-> errTableDef, sorted |-> sorted]
         ELSE IF c.Order - 1 = Len(columns) THEN [err |-> errPanic, sorted |-> sorted]
         ELSE IF sorted[c.Order].Order # 0 THEN [err |-> errTableDef, sorted |-> sorted]
         ELSE sortColumns(columns, i + 1, [sorted EXCEPT ![c.Order] = c])

\* CREATE TABLE, a duplicate table being no error, then the dictionary rows
createTable(d, table) ==
    LET s == sortColumns(table.Columns, 1, [i \in 1..Len(table.Columns) |-> Unset])
        sortedTable == [Name |-> table.Name, Columns |-> s.sorted]
        c == ExecCreateTable(d, sortedTable)
    IN IF s.err # OK THEN [err |-> s.err, db |-> d]
       ELSE IF c.err = errDupTable THEN [err |-> OK, db |-> d]
       ELSE IF c.err # OK THEN c
       ELSE ExecInsertDictionary(c.db, table.Name, ColumnNames(sortedTable))

\* "ALTER TABLE %s ADD COLUMN %s %s" with tableName, columnName, sqlType
AlterColumnQuery(tableName, columnName) == [table |-> tableName, column |-> columnName]

\* ALTER TABLE ADD COLUMN for every declared column the dictionary lacks
RECURSIVE alterColumns(_, _, _, _)
alterColumns(d, newTable, currentTable, i) ==
    IF i > Len(newTable.Columns) THEN [err |-> OK, db |-> d]
    ELSE LET newColumn == newTable.Columns[i].Name
             query == AlterColumnQuery(newTable.Name, newColumn) IN
         IF newColumn \in currentTable THEN alterColumns(d, newTable, currentTable, i + 1)
         ELSE LET a == ExecAlterColumn(d, query.table, query.column) IN
              IF a.err = errDupColumn THEN alterColumns(d, newTable, currentTable, i + 1)
              ELSE IF a.err # OK THEN a
              ELSE LET s == ExecInsertDictionary(a.db, newTable.Name, {newColumn}) IN
                   IF s.err # OK THEN s
                   ELSE alterColumns(s.db, newTable, currentTable, i + 1)

alterTable(d, newTable) == alterColumns(d, newTable, getTableDef(d, newTable.Name), 1)

\* every table of the catalog, in the order the map yields them; the first error ends it
RECURSIVE SynchronizeDB(_, _, _)
SynchronizeDB(d, order, i) ==
    IF i > Len(order) THEN [err |-> OK, db |-> d]
    ELSE LET r == IF findTable(d, order[i].Name) THEN alterTable(d, order[i])
                  ELSE createTable(d, order[i])
         IN IF r.err # OK THEN r ELSE SynchronizeDB(r.db, order, i + 1)

-----------------------------------------------------------------------------
(* Part II: SetBlock as a function of the database *)

\* a rollback that would let the log row of the failed transaction through
RollbackKeepsLog(d, w) == [d EXCEPT !.seq = w.seq, !.log = w.log]

\* what a rolled back transaction leaves: the committed data, the serial moved on
Rollback(d, w) == [d EXCEPT !.seq = w.seq]

\* the rows of one table, in batch order; the first failing row ends it
RECURSIVE upsertRows(_, _, _, _)
upsertRows(w, uQuery, dataRows, i) ==
    IF i > Len(dataRows) THEN [err |-> OK, db |-> w]
    ELSE LET p == getUpsertParams(uQuery, dataRows[i]) IN
         IF p.err # OK THEN [err |-> p.err, db |-> w]
         ELSE LET e == ExecUpsert(w, uQuery, p.params) IN
              IF e.err # OK THEN e ELSE upsertRows(e.db, uQuery, dataRows, i + 1)

\* for each table of the catalog: its log detail row, then its rows of the batch
RECURSIVE upsertTables(_, _, _, _, _)
upsertTables(w, order, eventData, id, i) ==
    IF i > Len(order) THEN [err |-> OK, db |-> w]
    ELSE LET table == order[i]
             dataRows == eventData.Tables[table.Name]
             w1 == ExecInsertLogDet(w, id, table.Name, Len(dataRows))
             r == upsertRows(w1, getUpsertQuery(table), dataRows, 1)
         IN IF r.err # OK THEN r ELSE upsertTables(r.db, order, eventData, id, i + 1)

\* one transaction; on an undefined table or column: rollback, synchronize, call again
RECURSIVE SetBlock(_, _, _, _)
SetBlock(d, order, eventData, fuel) ==
    LET w0 == ExecInsertLog(d, Len(order), eventData.Block)
        r == upsertTables(w0, order, eventData, w0.seq, 1)
        back == Rollback(d, r.db)
        s == SynchronizeDB(back, order, 1)
    IN IF r.err = OK THEN [err |-> OK, db |-> r.db]
       ELSE IF r.err \in {errUndefinedTable, errUndefinedColumn}
            THEN IF s.err # OK THEN s
                 ELSE IF fuel = 0 THEN [err |-> errOverflow, db |-> s.db]
                 ELSE SetBlock(s.db, order, eventData, fuel - 1)
            ELSE [err |-> r.err, db |-> back]

-----------------------------------------------------------------------------
(* Part III: SetBlock statement by statement *)

MaxCalls == 1    \* SetBlock calls in one behaviour
MaxDepth == 2    \* nested SetBlock calls followed before the behaviour is cut
MaxDrift == 1    \* tables or columns dropped from outside
MaxFaults == 1   \* statements failing for reasons outside the schema

Heights == {1, 2}

\* rows as the batch carries them: column name to value, absent columns left out
Rows1 ==
    { <<>>,
      <<[k |-> 1, v |-> "a"]>>,
      <<[k |-> 1, v |-> "b"], [k |-> 2, v |-> "a"]>>,
      <<[k |-> 1]>>,
      <<[k |-> 2, v |-> "b"], [v |-> "a"]>> }

Rows2 == { <<>>, <<[k |-> 1], [k |-> 1]>>, <<[k |-> 2], [v |-> "a"]>> }

Batches == {[Block |-> h, Tables |-> [t1 |-> r1, t2 |-> r2]] : h \in Heights, r1 \in Rows1, r2 \in Rows2}

NoCall ==
    [cat |-> {}, data |-> [Block |-> 0, Tables |-> [t1 |-> <<>>, t2 |-> <<>>]],
     todo |-> {}, table |-> Table1, idx |-> 0, id |-> 0, err |-> OK, depth |-> 0]

\* the database before the behaviour: just opened, synchronized, or holding one block
FullOrder == <<Table1, Table2>>
SyncedDB == SynchronizeDB(EmptyDB, FullOrder, 1).db
FirstBlock == [Block |-> 2, Tables |-> [t1 |-> <<[k |-> 1, v |-> "a"]>>, t2 |-> <<[k |-> 1]>>]]
LoadedDB == SetBlock(SyncedDB, FullOrder, FirstBlock, 1).db
StartDBs == {EmptyDB, SyncedDB, LoadedDB}

NoSync == [db |-> EmptyDB, cat |-> {}, step |-> 0, first |-> EmptyDB, err1 |-> OK, err2 |-> OK]
NoReplay == [once |-> EmptyDB, twice |-> EmptyDB, step |-> 0, cat |-> {}, a |-> NoCall.data]

\* the parts a specification does not exercise stay as they are here
RestDB ==
    /\ db = EmptyDB
    /\ tx = <<>>
    /\ pc = "idle"
    /\ cur = NoCall
    /\ pre = EmptyDB
    /\ env = [calls |-> 0, drops |-> 0, faults |-> 0]

RestSync == sync = NoSync

RestReplay == replay = NoReplay

NoReceiver == [pc |-> "init", pos |-> 1, blk |-> 0, n |-> 0, data |-> NoCall.data]
NoMain == [pc |-> "select", result |-> "none", waiter |-> "wait", blk |-> NoCall.data]
NoHist == [written |-> <<>>, partial |-> FALSE, kills |-> 0, faults |-> 0, failed |-> FALSE,
           shut |-> "no", eof |-> FALSE, observed |-> FALSE, decoded |-> FALSE]

Filters == {"f1", "f2"}

NoFilter == [pc |-> "init", fromBlock |-> 0, next |-> 1, resp |-> 0, ev |-> 0, data |-> NoCall.data]

RestFilters ==
    /\ flt = [f \in Filters |-> NoFilter]
    /\ fmain = [pc |-> "select", blk |-> NoCall.data, calls |-> <<>>, active |-> 0]

NoKill ==
    [db |-> EmptyDB, start |-> EmptyDB, cat |-> {}, order |-> <<>>, i |-> 0, j |-> 0, cur |-> {},
     phase |-> "start", err |-> OK, kills |-> 0, gap |-> FALSE]

RestKill == ks = NoKill

NoDrift == [db |-> EmptyDB, before |-> EmptyDB, step |-> 0, dropped |-> <<>>, data |-> NoCall.data, err |-> OK]

RestDrift == drift = NoDrift

NoRows == [db |-> EmptyDB, before |-> EmptyDB, w |-> EmptyDB, rows |-> <<>>, n |-> 0, pc |-> "none", err |-> OK]

RestRows == rowsv = NoRows

NoFn == [op |-> "none", in |-> <<>>, out |-> <<>>, done |-> FALSE]

RestFn == fn = NoFn

\* NewConsumer: Closing false, no connection; neither Run nor Shutdown called
NoConsumer ==
    [run |-> "new", result |-> "none", GRPCConnection |-> "nil", Closing |-> FALSE,
     shut |-> "none", at |-> "none", dialed |-> FALSE, calls |-> 0]

RestCon == con = NoConsumer

RestRun ==
    /\ rcv = NoReceiver
    /\ mainp = NoMain
    /\ net = [stream |-> FALSE, closing |-> FALSE, ended |-> FALSE, bad |-> 0]
    /\ cdb = EmptyDB
    /\ hist = NoHist

InitDB ==
    /\ db \in StartDBs
    /\ tx = <<>>
    /\ pc = "idle"
    /\ cur = NoCall
    /\ pre = EmptyDB
    /\ env = [calls |-> 0, drops |-> 0, faults |-> 0]
    /\ RestSync
    /\ RestReplay
    /\ RestRun
    /\ RestFilters
    /\ RestKill
    /\ RestDrift
    /\ RestRows
    /\ RestFn
    /\ RestCon

\* Consumer.Run synchronizes before it writes
Synchronize ==
    /\ pc = "idle"
    /\ \E cat \in Catalogs : \E order \in Orders(cat) : db' = SynchronizeDB(db, order, 1).db
    /\ UNCHANGED <<tx, pc, cur, pre, env>>
    /\ UNCHANGED besidesDB

Call ==
    /\ pc = "idle"
    /\ env.calls < MaxCalls
    /\ \E cat \in Catalogs, data \in Batches : cur' = [NoCall EXCEPT !.cat = cat, !.data = data]
    /\ pre' = db
    /\ pc' = "begin"
    /\ env' = [env EXCEPT !.calls = @ + 1]
    /\ UNCHANGED <<db, tx>>
    /\ UNCHANGED besidesDB

\* Begin, the log row, the prepared log detail statement
Begin ==
    /\ pc = "begin"
    /\ tx' = <<ExecInsertLog(db, Cardinality(cur.cat), cur.data.Block)>>
    /\ cur' = [cur EXCEPT !.id = db.seq + 1, !.todo = cur.cat, !.err = OK]
    /\ pc' = "tables"
    /\ UNCHANGED <<db, pre, env>>
    /\ UNCHANGED besidesDB

\* the range over the catalog yields its next table: the log detail row is written
NextTable ==
    /\ pc = "tables"
    /\ \E table \in cur.todo :
          /\ tx' = <<ExecInsertLogDet(tx[1], cur.id, table.Name, Len(cur.data.Tables[table.Name]))>>
          /\ cur' = [cur EXCEPT !.table = table, !.idx = 1, !.todo = @ \ {table}]
    /\ pc' = "rows"
    /\ UNCHANGED <<db, pre, env>>
    /\ UNCHANGED besidesDB

\* one row of the current table: bound, then executed
Row ==
    /\ pc = "rows"
    /\ LET dataRows == cur.data.Tables[cur.table.Name]
           uQuery == getUpsertQuery(cur.table)
           p == getUpsertParams(uQuery, dataRows[cur.idx])
           e == ExecUpsert(tx[1], uQuery, p.params)
       IN IF cur.idx > Len(dataRows)
          THEN pc' = "tables" /\ UNCHANGED <<db, tx, cur>>
          ELSE IF p.err # OK
          THEN /\ pc' = "ret"
               /\ cur' = [cur EXCEPT !.err = p.err]
               /\ db' = Rollback(db, tx[1])
               /\ tx' = <<>>
          ELSE IF e.err # OK
          THEN pc' = "handle" /\ cur' = [cur EXCEPT !.err = e.err] /\ UNCHANGED <<db, tx>>
          ELSE tx' = <<e.db>> /\ cur' = [cur EXCEPT !.idx = @ + 1] /\ UNCHANGED <<db, pc>>
    /\ UNCHANGED <<pre, env>>
    /\ UNCHANGED besidesDB

\* the statement fails for a reason of its own (connection, lock, type)
RowFault ==
    /\ pc = "rows"
    /\ cur.idx <= Len(cur.data.Tables[cur.table.Name])
    /\ getUpsertParams(getUpsertQuery(cur.table), cur.data.Tables[cur.table.Name][cur.idx]).err = OK
    /\ env.faults < MaxFaults
    /\ env' = [env EXCEPT !.faults = @ + 1]
    /\ cur' = [cur EXCEPT !.err = errGeneric]
    /\ pc' = "handle"
    /\ UNCHANGED <<db, tx, pre>>
    /\ UNCHANGED besidesDB

\* the catalog is exhausted: the log statement is closed
EndTables ==
    /\ pc = "tables"
    /\ cur.todo = {}
    /\ pc' = "commit"
    /\ UNCHANGED <<db, tx, cur, pre, env>>
    /\ UNCHANGED besidesDB

\* an error handling that would synchronize with the transaction still open
HandleNoRollback ==
    /\ pc = "handle"
    /\ pc' = IF cur.err \in {errUndefinedTable, errUndefinedColumn} THEN "sync" ELSE "ret"
    /\ db' = (IF pc' = "ret" THEN Rollback(db, tx[1]) ELSE db)
    /\ tx' = (IF pc' = "ret" THEN <<>> ELSE tx)
    /\ UNCHANGED <<cur, pre, env>>
    /\ UNCHANGED besidesDB

\* error handling: rollback, then by error code either synchronize or return
Handle ==
    /\ pc = "handle"
    /\ db' = Rollback(db, tx[1])
    /\ tx' = <<>>
    /\ pc' = IF cur.err \in {errUndefinedTable, errUndefinedColumn} THEN "sync" ELSE "ret"
    /\ UNCHANGED <<cur, pre, env>>
    /\ UNCHANGED besidesDB

\* SynchronizeDB, then SetBlock calls itself
Resync ==
    /\ pc = "sync"
    /\ \E order \in Orders(cur.cat) :
          LET s == SynchronizeDB(db, order, 1) IN
          /\ db' = s.db
          /\ IF s.err # OK THEN pc' = "ret" /\ cur' = [cur EXCEPT !.err = s.err]
             ELSE IF cur.depth < MaxDepth THEN pc' = "begin" /\ cur' = [cur EXCEPT !.depth = @ + 1]
             ELSE pc' = "overflow" /\ cur' = [cur EXCEPT !.err = errOverflow]
    /\ UNCHANGED <<tx, pre, env>>
    /\ UNCHANGED besidesDB

Commit ==
    /\ pc = "commit"
    /\ db' = tx[1]
    /\ tx' = <<>>
    /\ cur' = [cur EXCEPT !.err = OK]
    /\ pc' = "ret"
    /\ UNCHANGED <<pre, env>>
    /\ UNCHANGED besidesDB

CommitFault ==
    /\ pc = "commit"
    /\ env.faults < MaxFaults
    /\ env' = [env EXCEPT !.faults = @ + 1]
    /\ db' = Rollback(db, tx[1])
    /\ tx' = <<>>
    /\ cur' = [cur EXCEPT !.err = errGeneric]
    /\ pc' = "ret"
    /\ UNCHANGED pre
    /\ UNCHANGED besidesDB

Return ==
    /\ pc = "ret"
    /\ pc' = "idle"
    /\ cur' = NoCall
    /\ pre' = EmptyDB
    /\ UNCHANGED <<db, tx, env>>
    /\ UNCHANGED besidesDB

\* DROP TABLE / ALTER TABLE DROP COLUMN issued by somebody else
DropTable(d, t) == [d EXCEPT !.live[t] = NoLive, !.rows[t] = <<>>]

DropColumn(d, t, c) ==
    [d EXCEPT !.live[t].cols = @ \ {c},
              !.rows[t] = [i \in 1..Len(@) |-> [n \in DOMAIN @[i] \ {c} |-> @[i][n]]]]

ExternalDrop ==
    /\ tx = <<>>
    /\ pc \notin {"ret", "overflow"}
    /\ env.drops < MaxDrift
    /\ env' = [env EXCEPT !.drops = @ + 1]
    /\ \E t \in TableNames :
          /\ db.live[t].exists
          /\ \/ db' = DropTable(db, t) /\ pre' = DropTable(pre, t)
             \/ /\ "v" \in db.live[t].cols
                /\ db' = DropColumn(db, t, "v")
                /\ pre' = DropColumn(pre, t, "v")
    /\ UNCHANGED <<tx, pc, cur>>
    /\ UNCHANGED besidesDB

NextDB ==
    \/ Synchronize
    \/ Call
    \/ Begin
    \/ NextTable
    \/ Row
    \/ RowFault
    \/ EndTables
    \/ Handle
    \/ Resync
    \/ Commit
    \/ CommitFault
    \/ Return
    \/ ExternalDrop

Spec == InitDB /\ [][NextDB]_vars

-----------------------------------------------------------------------------
(* Properties of SetBlock *)

Returned == pc = "ret"

\* every row of the batch applied to the rows held before the call
RowEffects == upsertTables([db EXCEPT !.rows = pre.rows], FullOrder, cur.data, 0, 1)

AllVisible ==
    /\ RowEffects.err = OK
    /\ db.rows = RowEffects.db.rows
    /\ db.log = Append(pre.log, [id |-> cur.id, registers |-> Cardinality(cur.cat), height |-> cur.data.Block])
    /\ db.det = pre.det \cup {[id |-> cur.id, tblname |-> t.Name, registers |-> Len(cur.data.Tables[t.Name])] : t \in cur.cat}

NoneVisible == db.rows = pre.rows /\ db.log = pre.log /\ db.det = pre.det

\* every table the batch has rows for is declared in the catalog
InCatalog == \A t \in AllTables : Len(cur.data.Tables[t.Name]) > 0 => t \in cur.cat

\* C1: when SetBlock has returned, either every row effect and every log entry of
\* the batch is visible in the database, or none of them is, for every batch and catalog
SetBlockAtomic == Returned => (AllVisible \/ NoneVisible)

\* C1, for batches that stay inside the catalog: success shows all, an error shows nothing
SetBlockAtomicInCatalog ==
    (Returned /\ InCatalog) => IF cur.err = OK THEN AllVisible ELSE NoneVisible

\* C35: if the batch has rows for a table that is not in the catalog passed to
\* SetBlock, SetBlock does not return success with these rows unapplied
NoSilentDrop ==
    (Returned /\ ~InCatalog /\ cur.err = OK) => (RowEffects.err = OK /\ db.rows = RowEffects.db.rows)

\* the step creates a table or adds a column or a dictionary row
SchemaGrows ==
    \/ ~(db'.dict \subseteq db.dict)
    \/ \E t \in TableNames :
          /\ db'.live[t].exists
          /\ ~db.live[t].exists \/ ~(db'.live[t].cols \subseteq db.live[t].cols)

\* C36: SynchronizeDB runs only while no write transaction is open: before
\* SetBlock is called, or after the failed transaction was rolled back and
\* before the retry begins a new one
ReconcilerOutsideTransaction ==
    [][SchemaGrows => (tx = <<>> /\ tx' = <<>> /\ pc \in {"idle", "sync"})]_vars

\* SetBlock has rolled back, synchronized a table into being and is about to retry
ResyncedBeforeRetry ==
    /\ pc = "begin"
    /\ cur.depth = 1
    /\ tx = <<>>
    /\ \E t \in cur.cat : db.live[t.Name].exists /\ ~pre.live[t.Name].exists

\* a later row failed after an earlier row of the same transaction was executed
RolledBackAfterRows == Returned /\ InCatalog /\ cur.err = errNullPK /\ cur.idx > 1

\* C2: after a successful SetBlock, GetLastBlockID is at least the height of the batch;
\* after a failed one it is what it was before the call
LastBlockAfterSetBlock ==
    Returned =>
        IF cur.err = OK THEN GetLastBlockID(db) >= cur.data.Block
        ELSE GetLastBlockID(db) = GetLastBlockID(pre)

\* a block written on top of a log that already holds one, and a failure on such a log
LastBlockMoved == Returned /\ cur.err = OK /\ Len(pre.log) > 0 /\ GetLastBlockID(pre) # cur.data.Block

\* C3: after an undefined table or column SetBlock retries the batch once; a second
\* such error is returned, so SetBlock is never entered a third time for one batch
RetryAtMostOnce == cur.depth <= 1

\* C14: GetLastBlockID is "0" whenever the log table has no rows
EmptyLogSentinel == Len(db.log) = 0 => GetLastBlockID(db) = 0

\* the database was synchronized, a SetBlock failed and was rolled back: the log is still empty
EmptyLogAfterFailure == pc = "ret" /\ cur.err # OK /\ Len(db.log) = 0 /\ db.seq > 0 /\ db.dict # {}

MaxHeight(d) == CHOOSE h \in {d.log[i].height : i \in 1..Len(d.log)} : \A i \in 1..Len(d.log) : d.log[i].height <= h

\* C15: GetLastBlockID is the maximum height among all log rows, whatever the
\* order of heights of the SetBlock calls
LastBlockIsMaximum == Len(db.log) > 0 => GetLastBlockID(db) = MaxHeight(db)

\* C15 amended: GetLastBlockID is the height of the log row committed last; it is
\* the maximum height when the heights were committed in ascending order
LastBlockIsLatestCommit ==
    Len(db.log) > 0 =>
        /\ GetLastBlockID(db) = db.log[Len(db.log)].height
        /\ (\A i, j \in 1..Len(db.log) : i < j => db.log[i].height <= db.log[j].height)
              => GetLastBlockID(db) = MaxHeight(db)

\* a block was committed after a block of greater height
CommittedOutOfOrder == pc = "ret" /\ Len(db.log) = 2 /\ db.log[1].height > db.log[2].height


-----------------------------------------------------------------------------
(* Part IV: SynchronizeDB called twice with the same catalog *)

\* What the live schema and the dictionary may hold for a table when
\* SynchronizeDB starts: nothing; the table as an earlier catalog declared it
\* (without v); the table as declared now; and, for each, what is left when the
\* process died between the DDL and the dictionary insert (dictionary behind)
\* or when the table or column v was dropped from outside (dictionary ahead).
Live1 == {NoLive, [exists |-> TRUE, cols |-> {"k"}, pkey |-> TRUE], [exists |-> TRUE, cols |-> {"k", "v"}, pkey |-> TRUE]}
Dict1 == {{}, {<<"t1", "k">>}, {<<"t1", "k">>, <<"t1", "v">>}}
Live2 == {NoLive, [exists |-> TRUE, cols |-> {"k"}, pkey |-> TRUE]}
Dict2 == {{}, {<<"t2", "k">>}}

SyncStarts ==
    {[EmptyDB EXCEPT !.live = [t1 |-> l1, t2 |-> l2], !.dict = d1 \cup d2] :
        l1 \in Live1, d1 \in Dict1, l2 \in Live2, d2 \in Dict2}

InitSync ==
    /\ sync \in {[NoSync EXCEPT !.db = d, !.first = d] : d \in SyncStarts}
    /\ RestDB
    /\ RestReplay
    /\ RestRun
    /\ RestFilters
    /\ RestKill
    /\ RestDrift
    /\ RestRows
    /\ RestFn
    /\ RestCon

FirstSync ==
    /\ sync.step = 0
    /\ \E cat \in Catalogs : \E order \in Orders(cat) :
          LET s == SynchronizeDB(sync.db, order, 1) IN
          sync' = [sync EXCEPT !.cat = cat, !.step = 1, !.db = s.db, !.first = s.db, !.err1 = s.err]
    /\ UNCHANGED besidesSync

SecondSync ==
    /\ sync.step = 1
    /\ \E order \in Orders(sync.cat) :
          LET s == SynchronizeDB(sync.db, order, 1) IN
          sync' = [sync EXCEPT !.step = 2, !.db = s.db, !.err2 = s.err]
    /\ UNCHANGED besidesSync

NextSync ==
    \/ FirstSync
    \/ SecondSync

SpecSync == InitSync /\ [][NextSync]_vars

\* C9: for every catalog and every starting database, SynchronizeDB twice succeeds
\* and leaves live tables, columns and dictionary as SynchronizeDB once leaves them
SyncTwiceIsSyncOnce ==
    sync.step = 2 => (sync.err1 = OK /\ sync.err2 = OK /\ sync.db = sync.first)

\* C9, when the first call succeeded: the second succeeds and changes nothing
SyncTwiceAfterSuccess ==
    (sync.step = 2 /\ sync.err1 = OK) => (sync.err2 = OK /\ sync.db = sync.first)

\* the first call created or altered something and the second ran after it
SecondSyncAfterChange == sync.step = 2 /\ sync.err1 = OK /\ sync.first.dict # {} /\ sync.cat = AllTables

\* both calls failed and left different databases
SyncTwiceDiffers == sync.step = 2 /\ sync.db # sync.first

-----------------------------------------------------------------------------
(* Part V: the batches a; b against a; a; b *)

\* every row of the batch has a value for every primary key column of its table
CarriesKeys(eventData) ==
    \A t \in AllTables : \A i \in 1..Len(eventData.Tables[t.Name]) :
        PrimaryNames(t) \subseteq DOMAIN eventData.Tables[t.Name][i]

InitReplay ==
    /\ replay \in {[NoReplay EXCEPT !.once = d, !.twice = d, !.cat = cat] : d \in StartDBs, cat \in Catalogs}
    /\ RestDB
    /\ RestSync
    /\ RestRun
    /\ RestFilters
    /\ RestKill
    /\ RestDrift
    /\ RestRows
    /\ RestFn
    /\ RestCon

\* both databases are written the batch a
WriteA ==
    /\ replay.step = 0
    /\ \E a \in {x \in Batches : CarriesKeys(x)} : \E o1, o2 \in Orders(replay.cat) :
          replay' = [replay EXCEPT !.step = 1, !.a = a,
                                   !.once = SetBlock(@, o1, a, MaxDepth).db,
                                   !.twice = SetBlock(@, o2, a, MaxDepth).db]
    /\ UNCHANGED besidesReplay

\* one database is written the batch a again
ReplayA ==
    /\ replay.step = 1
    /\ \E o \in Orders(replay.cat) :
          replay' = [replay EXCEPT !.step = 2, !.twice = SetBlock(@, o, replay.a, MaxDepth).db]
    /\ UNCHANGED besidesReplay

\* both databases are written the batch b
WriteB ==
    /\ replay.step = 2
    /\ \E b \in Batches : \E o1, o2 \in Orders(replay.cat) :
          replay' = [replay EXCEPT !.step = 3,
                                   !.once = SetBlock(@, o1, b, MaxDepth).db,
                                   !.twice = SetBlock(@, o2, b, MaxDepth).db]
    /\ UNCHANGED besidesReplay

NextReplay ==
    \/ WriteA
    \/ ReplayA
    \/ WriteB

SpecReplay == InitReplay /\ [][NextReplay]_vars

\* C10: when every row of a carries its primary key columns, the projection tables
\* after SetBlock(a); SetBlock(b) equal those after SetBlock(a); SetBlock(a); SetBlock(b)
ReplayDeterminism == replay.step = 3 => replay.once.rows = replay.twice.rows

\* a wrote rows, was written again, and b then changed the tables further
ReplayedThenWritten ==
    /\ replay.step = 3
    /\ Len(replay.a.Tables["t1"]) > 1
    /\ Len(replay.twice.log) = 3
    /\ Len(replay.twice.rows["t1"]) > 1
    /\ \E i \in 1..Len(replay.twice.rows["t1"]) : replay.twice.rows["t1"][i].v = NULL

-----------------------------------------------------------------------------
(* Part VI: Consumer.Run, one receiver goroutine *)

MaxKills == 1        \* times the process is killed and started again
MaxRunFaults == 1    \* upstream errors and failing SetBlock calls

\* an event of a block: the tags the filters look at and the values it carries
Event(tags, data) == [tags |-> tags, data |-> data]

\* parser.GetEventSpec(): filter and table of every binding
EventSpec == <<[Filter |-> "a", TableName |-> "T1"], [Filter |-> "b", TableName |-> "t2"]>>

\* the blocks the upstream node holds; the event of the second one matches no
\* binding, the third has an event matching both bindings and one matching none
Chain ==
    << [Height |-> 1, Events |-> <<Event({"a"}, [k |-> 1, v |-> "a"]), Event({"b"}, [k |-> 1])>>],
       [Height |-> 2, Events |-> <<Event({"c"}, [k |-> 9])>>],
       [Height |-> 3, Events |-> <<Event({"a"}, [k |-> 1, v |-> "b"]), Event({"a", "b"}, [k |-> 2]),
                                   Event({"c"}, [k |-> 3])>>] >>

\* eventCh := make(chan types.EventData): the batches the channel can hold
EventChCap == 0

\* heights of the blocks whose first event the ABI cannot decode; 0 is none
Undecodable == {0, 1, 3}

\* a filter that takes every event
MatchesAll(filter, taggedEvent) == TRUE

\* qry.Matches(taggedEvent)
Matches(filter, taggedEvent) == filter \in taggedEvent.tags

\* strings.ToLower on the table names of the bindings
ToLower(name) == IF name = "T1" THEN "t1" ELSE name

\* the row of the event for the table of the binding: the values of its columns
buildEventData(spec, event) ==
    [n \in DOMAIN event.data \cap ColumnNames(TableByName(ToLower(spec.TableName))) |-> event.data[n]]

NewBlockData(height) == [Block |-> height, Tables |-> [t \in TableNames |-> <<>>]]

AddRow(blockData, t, r) == [blockData EXCEPT !.Tables[t] = Append(@, r)]

PendingRows(blockData) == \E t \in TableNames : Len(blockData.Tables[t]) > 0

\* for _, spec := range eventSpec: a row for every binding whose filter matches
RECURSIVE AddEvent(_, _, _)
AddEvent(blockData, event, s) ==
    IF s > Len(EventSpec) THEN blockData
    ELSE IF Matches(EventSpec[s].Filter, event)
         THEN AddEvent(AddRow(blockData, ToLower(EventSpec[s].TableName), buildEventData(EventSpec[s], event)),
                       event, s + 1)
         ELSE AddEvent(blockData, event, s + 1)

\* the batch of a block once every event of it was added
RECURSIVE AddRows(_, _, _)
AddRows(blockData, events, i) ==
    IF i > Len(events) THEN blockData
    ELSE AddRows(AddEvent(blockData, events[i], 1), events, i + 1)

FullBlockData(i) == AddRows(NewBlockData(Chain[i].Height), Chain[i].Events, 1)

\* NewBlockRange(AbsoluteBound(startingBlock), end): the first block at or above the bound
FirstFrom(startingBlock) ==
    IF \E i \in 1..Len(Chain) : Chain[i].Height >= startingBlock
    THEN CHOOSE i \in 1..Len(Chain) :
            /\ Chain[i].Height >= startingBlock
            /\ \A j \in 1..Len(Chain) : Chain[j].Height >= startingBlock => i <= j
    ELSE Len(Chain) + 1

\* Recv has nothing more to return but the end of the stream
AtEOF == net.ended \/ (~net.stream /\ rcv.pos > Len(Chain))

InLoop == rcv.pc \in {"top", "recv", "build", "send"}

InitRun ==
    /\ rcv = NoReceiver
    /\ mainp = NoMain
    /\ net \in {[stream |-> b, closing |-> FALSE, ended |-> FALSE, bad |-> h] : b \in BOOLEAN, h \in Undecodable}
    /\ cdb = SyncedDB
    /\ hist = NoHist
    /\ RestDB
    /\ RestSync
    /\ RestReplay
    /\ RestFilters
    /\ RestKill
    /\ RestDrift
    /\ RestRows
    /\ RestFn
    /\ RestCon

\* GetLastBlockID, ParseUint, GetBlocks: on a closed connection the error goes to doneCh
Subscribe ==
    /\ rcv.pc = "init"
    /\ IF net.closing
       THEN rcv' = [rcv EXCEPT !.pc = "fail"] /\ hist' = [hist EXCEPT !.failed = TRUE]
       ELSE rcv' = [rcv EXCEPT !.pc = "top", !.pos = FirstFrom(GetLastBlockID(cdb))] /\ UNCHANGED hist
    /\ UNCHANGED <<mainp, net, cdb, besidesRun>>

\* a loop that never looks at Closing
TopNoBreak ==
    /\ rcv.pc = "top"
    /\ net.closing
    /\ rcv' = [rcv EXCEPT !.pc = "recv"]
    /\ UNCHANGED <<mainp, net, cdb, hist, besidesRun>>

\* if c.Closing { break }: the read that sees the flag set
TopBreak ==
    /\ rcv.pc = "top"
    /\ net.closing
    /\ rcv' = [rcv EXCEPT !.pc = "done"]
    /\ hist' = [hist EXCEPT !.observed = TRUE]
    /\ UNCHANGED <<mainp, net, cdb, besidesRun>>

\* the flag is clear, or the unsynchronized read misses the write of Shutdown
TopSleep ==
    /\ rcv.pc = "top"
    /\ rcv' = [rcv EXCEPT !.pc = "recv"]
    /\ UNCHANGED <<mainp, net, cdb, hist, besidesRun>>

\* blocks.Recv() returns the next block; a fresh BlockData gets its height
RecvBlock ==
    /\ rcv.pc = "recv"
    /\ ~net.ended
    /\ rcv.pos <= Len(Chain)
    /\ rcv' = [rcv EXCEPT !.pc = "build", !.blk = rcv.pos, !.pos = @ + 1, !.n = 0,
                          !.data = NewBlockData(Chain[rcv.pos].Height)]
    /\ UNCHANGED <<mainp, net, cdb, hist, besidesRun>>

\* blocks.Recv() returns io.EOF: continue
RecvEOF ==
    /\ rcv.pc = "recv"
    /\ AtEOF
    /\ rcv' = [rcv EXCEPT !.pc = "top"]
    /\ hist' = [hist EXCEPT !.eof = TRUE]
    /\ UNCHANGED <<mainp, net, cdb, besidesRun>>

\* blocks.Recv() fails on the connection Shutdown closed: c.Closing is set, break
RecvClosed ==
    /\ rcv.pc = "recv"
    /\ net.closing
    /\ ~AtEOF
    /\ rcv' = [rcv EXCEPT !.pc = "done"]
    /\ hist' = [hist EXCEPT !.observed = TRUE]
    /\ UNCHANGED <<mainp, net, cdb, besidesRun>>

\* blocks.Recv() fails for another reason: the error is put on doneCh
RecvError ==
    /\ rcv.pc = "recv"
    /\ ~net.closing
    /\ ~AtEOF
    /\ hist.faults < MaxRunFaults
    /\ rcv' = [rcv EXCEPT !.pc = "fail"]
    /\ hist' = [hist EXCEPT !.faults = @ + 1, !.failed = TRUE]
    /\ UNCHANGED <<mainp, net, cdb, besidesRun>>

\* the nil map a failed buildEventData returns: no key column; v absent is v NULL
NilRow == [v |-> NULL]

\* whether the next event of the block at hand is the one that cannot be decoded
NextUndecodable == rcv.blk > 0 /\ rcv.n = 0 /\ Chain[rcv.blk].Height = net.bad

\* a receiver that would offer every block, rows or not
BuildAlwaysSends ==
    /\ rcv.pc = "build"
    /\ ~NextUndecodable
    /\ LET events == Chain[rcv.blk].Events IN
       IF rcv.n < Len(events)
       THEN rcv' = [rcv EXCEPT !.n = @ + 1, !.data = AddEvent(@, events[rcv.n + 1], 1)]
       ELSE rcv' = [rcv EXCEPT !.pc = "send"]
    /\ UNCHANGED <<mainp, net, cdb, hist, besidesRun>>

\* the next event of the block is matched, decoded and added; after the last one
\* the block is offered on eventCh if it has rows
Build ==
    /\ rcv.pc = "build"
    /\ ~NextUndecodable
    /\ LET events == Chain[rcv.blk].Events IN
       IF rcv.n < Len(events)
       THEN rcv' = [rcv EXCEPT !.n = @ + 1, !.data = AddEvent(@, events[rcv.n + 1], 1)]
       ELSE rcv' = [rcv EXCEPT !.pc = IF PendingRows(rcv.data) THEN "send" ELSE "top"]
    /\ UNCHANGED <<mainp, net, cdb, hist, besidesRun>>

\* buildEventData fails: the error is offered on doneCh
DecodeFault ==
    /\ rcv.pc = "build"
    /\ NextUndecodable
    /\ rcv' = [rcv EXCEPT !.pc = "decodefail"]
    /\ hist' = [hist EXCEPT !.failed = TRUE, !.decoded = TRUE]
    /\ UNCHANGED <<mainp, net, cdb, besidesRun>>

\* a main loop that would go on after the error of the decoder
DoneErrIgnored ==
    /\ rcv.pc = "decodefail"
    /\ mainp.pc = "select"
    /\ rcv' = [rcv EXCEPT !.pc = "build", !.n = @ + 1,
                          !.data = AddRow(@, ToLower(EventSpec[1].TableName), NilRow)]
    /\ UNCHANGED <<mainp, net, cdb, hist, besidesRun>>

\* case err := <-doneCh takes the error of the decoder and Run returns it; the
\* receiver, which does not return after the send, adds the nil row and goes on
DoneErrDecode ==
    /\ rcv.pc = "decodefail"
    /\ mainp.pc = "select"
    /\ mainp' = [mainp EXCEPT !.pc = "returned", !.result = "err"]
    /\ rcv' = [rcv EXCEPT !.pc = "build", !.n = @ + 1,
                          !.data = AddRow(@, ToLower(EventSpec[1].TableName), NilRow)]
    /\ UNCHANGED <<net, cdb, hist, besidesRun>>

\* a send that would complete without the main loop taking the batch
SendBuffered ==
    /\ rcv.pc = "send"
    /\ rcv' = [rcv EXCEPT !.pc = "top"]
    /\ UNCHANGED <<mainp, net, cdb, hist, besidesRun>>

\* eventCh <- blk meets case blk := <-eventCh: the channel has no buffer
TakeBlock ==
    /\ rcv.pc = "send"
    /\ mainp.pc = "select"
    /\ mainp' = [mainp EXCEPT !.pc = "set", !.blk = rcv.data]
    /\ hist' = [hist EXCEPT !.written = Append(@, rcv.data.Block),
                            !.partial = @ \/ rcv.data # FullBlockData(rcv.blk)]
    /\ rcv' = [rcv EXCEPT !.pc = "top"]
    /\ UNCHANGED <<net, cdb, besidesRun>>

\* c.DB.SetBlock(tables, blk): an error ends Run, otherwise the loop goes on
Store ==
    /\ mainp.pc = "set"
    /\ \E order \in Orders(AllTables) :
          LET r == SetBlock(cdb, order, mainp.blk, MaxDepth) IN
          /\ cdb' = r.db
          /\ mainp' = IF r.err = OK THEN [mainp EXCEPT !.pc = "select"]
                      ELSE [mainp EXCEPT !.pc = "returned", !.result = "err"]
          /\ hist' = [hist EXCEPT !.failed = @ \/ r.err # OK]
    /\ UNCHANGED <<rcv, net, besidesRun>>

\* the same, SetBlock failing on the database side: rolled back, Run returns the error
StoreFault ==
    /\ mainp.pc = "set"
    /\ hist.faults < MaxRunFaults
    /\ mainp' = [mainp EXCEPT !.pc = "returned", !.result = "err"]
    /\ hist' = [hist EXCEPT !.faults = @ + 1, !.failed = TRUE]
    /\ UNCHANGED <<rcv, net, cdb, besidesRun>>

\* case err := <-doneCh with the receiver's error: Run returns it
DoneErr ==
    /\ rcv.pc = "fail"
    /\ mainp.pc = "select"
    /\ mainp' = [mainp EXCEPT !.pc = "returned", !.result = "err"]
    /\ rcv' = [rcv EXCEPT !.pc = "exit"]
    /\ UNCHANGED <<net, cdb, hist, besidesRun>>

\* wg.Wait() returns once the receiver goroutine has ended
WaiterWake ==
    /\ mainp.waiter = "wait"
    /\ rcv.pc \in {"done", "exit"}
    /\ mainp' = [mainp EXCEPT !.waiter = "send"]
    /\ UNCHANGED <<rcv, net, cdb, hist, besidesRun>>

\* doneCh <- nil meets case err := <-doneCh: break loop, return nil
DoneNil ==
    /\ mainp.waiter = "send"
    /\ mainp.pc = "select"
    /\ mainp' = [mainp EXCEPT !.pc = "returned", !.result = "nil", !.waiter = "done"]
    /\ UNCHANGED <<rcv, net, cdb, hist, besidesRun>>

\* Consumer.Shutdown: Closing = true, GRPCConnection.Close()
Shutdown ==
    /\ ~net.closing
    /\ net' = [net EXCEPT !.closing = TRUE]
    /\ hist' = [hist EXCEPT !.shut = IF InLoop /\ mainp.pc # "returned" THEN rcv.pc ELSE "other"]
    /\ UNCHANGED <<rcv, mainp, cdb, besidesRun>>

\* the upstream node ends the stream it was serving
UpstreamEnds ==
    /\ net.stream
    /\ ~net.ended
    /\ InLoop
    /\ net' = [net EXCEPT !.ended = TRUE]
    /\ UNCHANGED <<rcv, mainp, cdb, hist, besidesRun>>

\* the process is killed and started again: only the database survives
KillRestart ==
    /\ hist.kills < MaxKills
    /\ ~net.closing
    /\ rcv' = NoReceiver
    /\ mainp' = NoMain
    /\ net' = [net EXCEPT !.ended = FALSE]
    /\ hist' = [hist EXCEPT !.kills = @ + 1, !.failed = FALSE, !.eof = FALSE, !.decoded = FALSE]
    /\ UNCHANGED <<cdb, besidesRun>>

ReceiverStep ==
    \/ Subscribe
    \/ TopBreak
    \/ TopSleep
    \/ RecvBlock
    \/ RecvEOF
    \/ RecvClosed
    \/ Build

MainStep ==
    \/ TakeBlock
    \/ Store
    \/ DoneErr
    \/ WaiterWake
    \/ DoneNil

NextRun ==
    \/ ReceiverStep
    \/ MainStep
    \/ DecodeFault
    \/ DoneErrDecode
    \/ RecvError
    \/ StoreFault
    \/ Shutdown
    \/ UpstreamEnds
    \/ KillRestart

SpecRun == InitRun /\ [][NextRun]_vars

\* one process from start to end: nobody kills it, every event can be decoded,
\* the database and the upstream node do not fail
InitLive == InitRun /\ net.bad = 0

NextLive ==
    \/ ReceiverStep
    \/ MainStep
    \/ Shutdown
    \/ UpstreamEnds

\* the cases of the select of the main loop
SelectStep ==
    \/ TakeBlock
    \/ DoneErr
    \/ WaiterWake
    \/ DoneNil

\* Goroutines that can run do run; a SetBlock that was called returns (Store is
\* enabled whenever the main loop is in it); the write of Closing, read without
\* synchronization, is seen by the receiver sooner or later.
SpecRunFair ==
    /\ InitLive
    /\ [][NextLive]_vars
    /\ WF_vars(ReceiverStep)
    /\ WF_vars(SelectStep)
    /\ []<>(mainp.pc # "set")
    /\ SF_vars(TopBreak)

-----------------------------------------------------------------------------
(* Properties of Consumer.Run *)

\* the database of a run that is never killed, after every block of the stream
RECURSIVE RunFrom(_, _)
RunFrom(d, i) ==
    IF i > Len(Chain) THEN d
    ELSE IF PendingRows(FullBlockData(i))
         THEN RunFrom(SetBlock(d, FullOrder, FullBlockData(i), MaxDepth).db, i + 1)
         ELSE RunFrom(d, i + 1)

UninterruptedDB == RunFrom(SyncedDB, 1)

LogHeights(d) == [i \in 1..Len(d.log) |-> d.log[i].height]

\* every block of the stream was received and, if it had rows, written
Final == rcv.pos > Len(Chain) /\ rcv.pc \in {"top", "recv", "done"} /\ mainp.pc # "set" /\ ~hist.failed

\* C4: a run killed after a commit and started again ends with the same database
\* (projection tables and log) as the run that was never killed
CrashRestartSameDatabase ==
    Final => (cdb.rows = UninterruptedDB.rows /\ LogHeights(cdb) = LogHeights(UninterruptedDB))

\* C4 amended: the projection tables and GetLastBlockID are those of the run that
\* was never killed; the log may hold the blocks delivered again a second time
CrashRestartSameProjection ==
    Final => (cdb.rows = UninterruptedDB.rows /\ GetLastBlockID(cdb) = GetLastBlockID(UninterruptedDB))

\* the process was killed, started again from the last logged height and wrote
\* that block a second time before it reached the end of the stream
RestartedAndFinished == Final /\ hist.kills = 1 /\ Len(cdb.log) > Len(UninterruptedDB.log)

RunReturned == mainp.pc = "returned"

EOFStopsReceiver == (~net.stream /\ hist.eof) => rcv.pc # "recv"

\* C8: with stream = true, after the end of the stream the receiver opens a new
\* subscription: it does not call Recv on the stream that ended
EOFResubscribes == (net.stream /\ rcv.pc = "recv" /\ hist.eof) => ~net.ended

\* a goroutine is at a send on a channel without buffer
ReceiverAtSend == rcv.pc \in {"send", "fail", "decodefail"}

WaiterAtSend == mainp.waiter = "send"

\* C37: once Run has returned, with or without error, neither the receiver nor
\* the goroutine waiting for the wait group is at a send on eventCh or doneCh,
\* which nobody would take any more
NoGoroutineLeftBlocked == RunReturned => (~ReceiverAtSend /\ ~WaiterAtSend)

\* when Run returns nil the receiver has ended and the waiter has delivered
NilReturnLeavesNobodyBlocked ==
    (RunReturned /\ mainp.result = "nil") => (rcv.pc \in {"done", "exit"} /\ ~WaiterAtSend)

\* no event of the block carries the tag of any binding
Unmatched(i) ==
    \A e \in 1..Len(Chain[i].Events) : \A s \in 1..Len(EventSpec) :
        EventSpec[s].Filter \notin Chain[i].Events[e].tags

\* C16: a block none of whose events matches a binding (raw block and tx capture
\* off) is never offered to the main loop nor passed to SetBlock: the database
\* holds no log row of its height, so GetLastBlockID is never its height
EmptyBatchNoWrite ==
    \A i \in 1..Len(Chain) : Unmatched(i) =>
        /\ \A j \in 1..Len(hist.written) : hist.written[j] # Chain[i].Height
        /\ \A j \in 1..Len(cdb.log) : cdb.log[j].height # Chain[i].Height
        /\ GetLastBlockID(cdb) # Chain[i].Height
        /\ rcv.blk = i => rcv.pc # "send"
        /\ mainp.pc = "set" => mainp.blk.Block # Chain[i].Height

\* the receiver is through a block without a matching event and back at the top of
\* its loop; the main loop is idle and the last block is still the one before
EmptyBlockPassed ==
    /\ rcv.blk > 0
    /\ Unmatched(rcv.blk)
    /\ rcv.pc = "top"
    /\ mainp.pc = "select"
    /\ GetLastBlockID(cdb) = Chain[rcv.blk - 1].Height

LoweredTables == <<"t1", "t2">>

\* the bindings whose filter is among the tags of the e-th event of block i
MatchingSpecs(i, e) == {s \in 1..Len(EventSpec) : EventSpec[s].Filter \in Chain[i].Events[e].tags}

\* C18: while a block is assembled, each table of the batch holds one row for
\* every pair of an event added so far and a binding whose filter is among the
\* event's tags and whose lowercased table it is; an event without such a binding
\* adds nothing, and the decoder is only asked (and only fails) for an event
\* that matches
OneRowPerMatch ==
    (rcv.blk > 0 /\ rcv.pc \in {"build", "decodefail", "send"}) =>
        /\ \A t \in TableNames :
              Len(rcv.data.Tables[t]) =
                  Cardinality({p \in (1..rcv.n) \X (1..Len(EventSpec)) :
                                  p[2] \in MatchingSpecs(rcv.blk, p[1]) /\ LoweredTables[p[2]] = t})
        /\ rcv.pc = "decodefail" => MatchingSpecs(rcv.blk, rcv.n + 1) # {}

\* the second event of the third block carries the tags of both bindings, the
\* third of neither: the batch offered holds two rows for t1 and one for t2
EventMatchedTwice ==
    /\ rcv.blk = 3
    /\ rcv.n = 3
    /\ rcv.pc = "send"
    /\ MatchingSpecs(3, 2) = {1, 2}
    /\ MatchingSpecs(3, 3) = {}
    /\ Len(rcv.data.Tables["t1"]) = 2
    /\ Len(rcv.data.Tables["t2"]) = 1

\* C19: the channel between receiver and writer has capacity 1: a receiver that
\* waits at its send while the writer is in SetBlock waits behind a batch the
\* channel holds
BlockedBehindBufferedBatch == (rcv.pc = "send" /\ mainp.pc = "set") => EventChCap = 1

\* C19 amended: the channel holds nothing; a send ends only in the step in which
\* the main loop, at its select, takes that very batch (or the process is
\* killed), so the receiver waits while the writer is in SetBlock and the
\* batches assembled but not taken are the one at the send, at most
UnbufferedBackpressure ==
    /\ [][(rcv.pc = "send" /\ rcv'.pc # "send") =>
            \/ rcv' = NoReceiver /\ mainp' = NoMain
            \/ mainp.pc = "select" /\ mainp'.pc = "set" /\ mainp'.blk = rcv.data /\ rcv'.pc = "top"]_vars
    /\ []((IF rcv.pc = "send" THEN 1 ELSE 0) + EventChCap <= 1)
    /\ []((rcv.pc = "send" /\ mainp.pc = "set") => mainp.blk.Block < rcv.data.Block)

\* the writer is in SetBlock with the first block; the receiver has assembled the
\* third and waits at the send
ReceiverWaitsForWriter ==
    /\ rcv.pc = "send"
    /\ rcv.blk = 3
    /\ mainp.pc = "set"
    /\ mainp.blk.Block = 1
    /\ hist.kills = 0

-----------------------------------------------------------------------------
(* Part VII: Consumer.Run, one goroutine per event specification *)

\* an event of the stream of one filter: the block it is from, its table and row
FilterEvent(h, t, r) == [height |-> h, table |-> t, row |-> r]

\* what GetEvents streams for each filter: responses, each a list of events
Responses ==
    [f \in Filters |->
        IF f = "f1"
        THEN << <<FilterEvent(1, "t1", [k |-> 1, v |-> "a"])>>, <<FilterEvent(2, "t1", [k |-> 2, v |-> "b"])>> >>
        ELSE << <<FilterEvent(1, "t2", [k |-> 1])>> >>]

SetBlockID(blockData, height) == [blockData EXCEPT !.Block = height]

InitFilters ==
    /\ RestFilters
    /\ RestDB
    /\ RestSync
    /\ RestReplay
    /\ RestRun
    /\ RestKill
    /\ RestDrift
    /\ RestRows
    /\ RestFn
    /\ RestCon

\* GetLastBlockID(spec.Filter) on a fresh log is "0"; GetEvents from there to the latest block
FSubscribe(f) ==
    /\ flt[f].pc = "init"
    /\ flt' = [flt EXCEPT ![f].pc = "top", ![f].fromBlock = 0, ![f].next = 1, ![f].data = NewBlockData(0)]
    /\ UNCHANGED <<fmain, besidesFilters>>

\* Closing is not set: sleep, then Recv
FTop(f) ==
    /\ flt[f].pc = "top"
    /\ flt' = [flt EXCEPT ![f].pc = "recv"]
    /\ UNCHANGED <<fmain, besidesFilters>>

\* evs.Recv(): the next response, or io.EOF and continue
FRecv(f) ==
    /\ flt[f].pc = "recv"
    /\ IF flt[f].next <= Len(Responses[f])
       THEN flt' = [flt EXCEPT ![f].pc = "event", ![f].resp = flt[f].next, ![f].next = @ + 1, ![f].ev = 1]
       ELSE flt' = [flt EXCEPT ![f].pc = "top"]
    /\ UNCHANGED <<fmain, besidesFilters>>

\* the next event of the response is decoded; a new height ends the block at
\* hand; after the last event the pending block is to be stored
FEvent(f) ==
    /\ flt[f].pc = "event"
    /\ LET g == flt[f]
           events == Responses[f][g.resp]
       IN IF g.ev > Len(events)
          THEN flt' = [flt EXCEPT ![f].pc = IF PendingRows(g.data) THEN "endsend" ELSE "top"]
          ELSE IF g.fromBlock # events[g.ev].height
          THEN IF PendingRows(g.data)
               THEN flt' = [flt EXCEPT ![f].pc = "blocksend"]
               ELSE flt' = [flt EXCEPT ![f].pc = "add", ![f].data = NewBlockData(0),
                                       ![f].fromBlock = events[g.ev].height]
          ELSE flt' = [flt EXCEPT ![f].pc = "add"]
    /\ UNCHANGED <<fmain, besidesFilters>>

\* eventCh <- blk at a block boundary meets the main loop; then a fresh BlockData
FBlockSend(f) ==
    /\ flt[f].pc = "blocksend"
    /\ fmain.pc = "select"
    /\ fmain' = [fmain EXCEPT !.pc = "set", !.blk = flt[f].data, !.active = @ + 1,
                              !.calls = Append(@, flt[f].data.Block)]
    /\ flt' = [flt EXCEPT ![f].pc = "add", ![f].data = NewBlockData(0),
                          ![f].fromBlock = Responses[f][flt[f].resp][flt[f].ev].height]
    /\ UNCHANGED besidesFilters

\* SetBlockID(fromBlock), AddRow(tableName, row)
FAdd(f) ==
    /\ flt[f].pc = "add"
    /\ LET e == Responses[f][flt[f].resp][flt[f].ev] IN
       flt' = [flt EXCEPT ![f].pc = "event", ![f].ev = @ + 1,
                          ![f].data = AddRow(SetBlockID(@, flt[f].fromBlock), e.table, e.row)]
    /\ UNCHANGED <<fmain, besidesFilters>>

\* eventCh <- blk at the end of a response meets the main loop; BlockData is kept
FEndSend(f) ==
    /\ flt[f].pc = "endsend"
    /\ fmain.pc = "select"
    /\ fmain' = [fmain EXCEPT !.pc = "set", !.blk = flt[f].data, !.active = @ + 1,
                              !.calls = Append(@, flt[f].data.Block)]
    /\ flt' = [flt EXCEPT ![f].pc = "top"]
    /\ UNCHANGED besidesFilters

\* c.DB.SetBlock(tables, blk) returns; back to the select
FSetBlockReturns ==
    /\ fmain.pc = "set"
    /\ fmain' = [fmain EXCEPT !.pc = "select", !.active = @ - 1]
    /\ UNCHANGED <<flt, besidesFilters>>

NextFilters ==
    \/ \E f \in Filters : FSubscribe(f)
    \/ \E f \in Filters : FTop(f)
    \/ \E f \in Filters : FRecv(f)
    \/ \E f \in Filters : FEvent(f)
    \/ \E f \in Filters : FBlockSend(f)
    \/ \E f \in Filters : FAdd(f)
    \/ \E f \in Filters : FEndSend(f)
    \/ FSetBlockReturns

SpecFilters == InitFilters /\ [][NextFilters]_vars

\* C5: the batches reach SetBlock in strictly ascending height and no SetBlock
\* starts before the one before it has returned, whatever the number of filters
CommitOrdering ==
    /\ \A i, j \in 1..Len(fmain.calls) : i < j => fmain.calls[i] < fmain.calls[j]
    /\ fmain.active <= 1

\* C5, the part that holds: SetBlock calls never overlap
OneSetBlockAtATime == fmain.active <= 1

-----------------------------------------------------------------------------
(* Part VIII: SynchronizeDB statement by statement, the process being killed *)

MaxSyncKills == 2   \* kills of the process while it synchronizes

\* t1 as an earlier catalog declared it, without v
OlderTable1 == [Name |-> "t1", Columns |-> <<SQLTableColumn("k", TRUE, 1)>>]
OlderDB == SynchronizeDB(EmptyDB, <<OlderTable1>>, 1).db

InitKill ==
    /\ ks \in {[NoKill EXCEPT !.db = d, !.start = d] : d \in {EmptyDB, OlderDB}}
    /\ RestDB
    /\ RestSync
    /\ RestReplay
    /\ RestRun
    /\ RestFilters
    /\ RestDrift
    /\ RestRows
    /\ RestFn
    /\ RestCon

\* SynchronizeDB(eventTables) is called: the range over the map fixes an order
KStart ==
    /\ ks.phase = "start"
    /\ \E cat \in (IF ks.kills = 0 THEN Catalogs ELSE {ks.cat}) : \E order \in Orders(cat) :
          ks' = [ks EXCEPT !.cat = cat, !.order = order, !.i = 1, !.phase = "find", !.start = ks.db]
    /\ UNCHANGED besidesKill

\* found, err := db.findTable(table.Name), for the next table of the range
KFind ==
    /\ ks.phase = "find"
    /\ IF ks.i > Len(ks.order)
       THEN ks' = [ks EXCEPT !.phase = "done", !.err = OK]
       ELSE IF findTable(ks.db, ks.order[ks.i].Name)
       THEN ks' = [ks EXCEPT !.phase = "alter", !.j = 1, !.cur = getTableDef(ks.db, ks.order[ks.i].Name)]
       ELSE ks' = [ks EXCEPT !.phase = "create"]
    /\ UNCHANGED besidesKill

\* createTable up to and including the CREATE TABLE statement
KCreate ==
    /\ ks.phase = "create"
    /\ LET table == ks.order[ks.i]
           s == sortColumns(table.Columns, 1, [i \in 1..Len(table.Columns) |-> Unset])
           c == ExecCreateTable(ks.db, [Name |-> table.Name, Columns |-> s.sorted])
       IN IF s.err # OK THEN ks' = [ks EXCEPT !.phase = "done", !.err = s.err]
          ELSE IF c.err = errDupTable THEN ks' = [ks EXCEPT !.phase = "find", !.i = @ + 1]
          ELSE IF c.err # OK THEN ks' = [ks EXCEPT !.phase = "done", !.err = c.err]
          ELSE ks' = [ks EXCEPT !.phase = "dictionary", !.db = c.db]
    /\ UNCHANGED besidesKill

\* createTable: the dictionary rows of the table just created
KCreateDictionary ==
    /\ ks.phase = "dictionary"
    /\ LET table == ks.order[ks.i]
           s == ExecInsertDictionary(ks.db, table.Name, ColumnNames(table))
       IN IF s.err # OK THEN ks' = [ks EXCEPT !.phase = "done", !.err = s.err]
          ELSE ks' = [ks EXCEPT !.phase = "find", !.i = @ + 1, !.db = s.db]
    /\ UNCHANGED besidesKill

\* alterTable: the next declared column; ALTER TABLE ADD COLUMN when getTableDef lacks it
KAlter ==
    /\ ks.phase = "alter"
    /\ LET newTable == ks.order[ks.i] IN
       IF ks.j > Len(newTable.Columns) THEN ks' = [ks EXCEPT !.phase = "find", !.i = @ + 1]
       ELSE LET newColumn == newTable.Columns[ks.j].Name
                a == ExecAlterColumn(ks.db, newTable.Name, newColumn)
            IN IF newColumn \in ks.cur THEN ks' = [ks EXCEPT !.j = @ + 1]
               ELSE IF a.err = errDupColumn THEN ks' = [ks EXCEPT !.j = @ + 1]
               ELSE IF a.err # OK THEN ks' = [ks EXCEPT !.phase = "done", !.err = a.err]
               ELSE ks' = [ks EXCEPT !.phase = "alterdictionary", !.db = a.db]
    /\ UNCHANGED besidesKill

\* alterTable: the dictionary row of the column just added
KAlterDictionary ==
    /\ ks.phase = "alterdictionary"
    /\ LET newTable == ks.order[ks.i]
           s == ExecInsertDictionary(ks.db, newTable.Name, {newTable.Columns[ks.j].Name})
       IN IF s.err # OK THEN ks' = [ks EXCEPT !.phase = "done", !.err = s.err]
          ELSE ks' = [ks EXCEPT !.j = @ + 1, !.phase = "alter", !.db = s.db]
    /\ UNCHANGED besidesKill

\* the process is killed; started again it synchronizes the same catalog
KKill ==
    /\ ks.phase \in {"find", "create", "dictionary", "alter", "alterdictionary"}
    /\ ks.kills < MaxSyncKills
    /\ ks' = [ks EXCEPT !.phase = "start", !.kills = @ + 1,
                        !.gap = @ \/ ks.phase \in {"dictionary", "alterdictionary"}]
    /\ UNCHANGED besidesKill

NextKill ==
    \/ KStart
    \/ KFind
    \/ KCreate
    \/ KCreateDictionary
    \/ KAlter
    \/ KAlterDictionary
    \/ KKill

SpecKill == InitKill /\ [][NextKill]_vars

\* SynchronizeDB that nobody interrupts is the function SynchronizeDB of Part II
KillFreeIsSynchronizeDB ==
    (ks.phase = "done" /\ ks.kills = 0) =>
        LET s == SynchronizeDB(ks.start, ks.order, 1) IN ks.err = s.err /\ ks.db = s.db

\* the dictionary has a row for every column the catalog declares
DictionaryComplete(d, cat) == \A t \in cat : \A c \in ColumnNames(t) : <<t.Name, c>> \in d.dict

\* the live table of every table of the catalog exists and has every declared column
LiveComplete(d, cat) == \A t \in cat : d.live[t.Name].exists /\ ColumnNames(t) \subseteq d.live[t.Name].cols

\* C11: after a kill between a CREATE TABLE or ALTER TABLE ADD COLUMN and its
\* dictionary insert, the next SynchronizeDB of the catalog succeeds and leaves
\* the dictionary with a row for every declared (table, column)
SynchronizeSurvivesKill ==
    (ks.phase = "done" /\ ks.gap) => (ks.err = OK /\ DictionaryComplete(ks.db, ks.cat))

\* C12: when SynchronizeDB returns success, every table of the catalog exists
\* with every declared column and the dictionary has a row for each of them
SynchronizePostcondition ==
    (ks.phase = "done" /\ ks.err = OK) => (LiveComplete(ks.db, ks.cat) /\ DictionaryComplete(ks.db, ks.cat))

\* C12, for a process that was never killed
SynchronizePostconditionNoKill ==
    (ks.phase = "done" /\ ks.err = OK /\ ks.kills = 0) =>
        (LiveComplete(ks.db, ks.cat) /\ DictionaryComplete(ks.db, ks.cat))

\* C12, the live half, kills or not
SynchronizeLiveComplete == (ks.phase = "done" /\ ks.err = OK) => LiveComplete(ks.db, ks.cat)

-----------------------------------------------------------------------------
(* Part IX: a drop from outside between two writes, PostgreSQL adapter queries *)

\* SELECT EXISTS (... pg_class ... relname = tableName)
GetFindTableQuery(d, tableName) == d.live[tableName].exists

\* SELECT column_name ... FROM information_schema.columns WHERE table_name = tableName
GetTableDefinitionQuery(d, tableName) == d.live[tableName].cols

\* "ALTER TABLE %s.%s ADD COLUMN %s %s" with Schema, tableName, tableName, sqlType
GetAlterColumnQuery(tableName, columnName) == [table |-> tableName, column |-> tableName]

\* COMMENT ON COLUMN schema.table.column
ExecCommentColumn(d, tname, cname) ==
    IF ~d.live[tname].exists THEN [err |-> errUndefinedTable, db |-> d]
    ELSE IF cname \notin d.live[tname].cols THEN [err |-> errUndefinedColumn, db |-> d]
    ELSE [err |-> OK, db |-> d]

\* CREATE TABLE, a duplicate table being no error, then the column comments
createTablePg(d, table) ==
    LET c == ExecCreateTable(d, table) IN
    IF c.err = errDupTable THEN [err |-> OK, db |-> d] ELSE c

\* for every declared column the live table lacks: ALTER TABLE ADD COLUMN, a
\* duplicate column being no error, then COMMENT ON COLUMN
RECURSIVE alterColumnsPg(_, _, _, _)
alterColumnsPg(d, newTable, currentTable, i) ==
    IF i > Len(newTable.Columns) THEN [err |-> OK, db |-> d]
    ELSE LET newColumn == newTable.Columns[i].Name IN
         IF newColumn \in currentTable THEN alterColumnsPg(d, newTable, currentTable, i + 1)
         ELSE LET q == GetAlterColumnQuery(newTable.Name, newColumn)
                  a == ExecAlterColumn(d, q.table, q.column)
                  after == IF a.err = errDupColumn THEN d ELSE a.db
                  c == ExecCommentColumn(after, newTable.Name, newColumn)
              IN IF a.err \notin {OK, errDupColumn} THEN a
                 ELSE IF c.err # OK THEN [err |-> c.err, db |-> after]
                 ELSE alterColumnsPg(after, newTable, currentTable, i + 1)

alterTablePg(d, newTable) ==
    IF ~GetFindTableQuery(d, newTable.Name) THEN [err |-> errGeneric, db |-> d]
    ELSE alterColumnsPg(d, newTable, GetTableDefinitionQuery(d, newTable.Name), 1)

RECURSIVE SynchronizeDBPg(_, _, _)
SynchronizeDBPg(d, order, i) ==
    IF i > Len(order) THEN [err |-> OK, db |-> d]
    ELSE LET r == IF GetFindTableQuery(d, order[i].Name) THEN alterTablePg(d, order[i])
                  ELSE createTablePg(d, order[i])
         IN IF r.err # OK THEN r ELSE SynchronizeDBPg(r.db, order, i + 1)

\* SetBlock with SynchronizeDB reading the live schema
RECURSIVE SetBlockPg(_, _, _, _)
SetBlockPg(d, order, eventData, fuel) ==
    LET w0 == ExecInsertLog(d, Len(order), eventData.Block)
        r == upsertTables(w0, order, eventData, w0.seq, 1)
        back == Rollback(d, r.db)
        s == SynchronizeDBPg(back, order, 1)
    IN IF r.err = OK THEN [err |-> OK, db |-> r.db]
       ELSE IF r.err \in {errUndefinedTable, errUndefinedColumn}
            THEN IF s.err # OK THEN s
                 ELSE IF fuel = 0 THEN [err |-> errOverflow, db |-> s.db]
                 ELSE SetBlockPg(s.db, order, eventData, fuel - 1)
            ELSE [err |-> r.err, db |-> back]

PgSyncedDB == SynchronizeDBPg(EmptyDB, FullOrder, 1).db
PgLoadedDB == SetBlockPg(PgSyncedDB, FullOrder, FirstBlock, 1).db

\* what may be dropped from outside: a column that is no key, or a whole table
Drops == {<<"t1", "v">>, <<"t1">>, <<"t2">>}

InitDrift ==
    /\ drift \in {[NoDrift EXCEPT !.db = d, !.before = d] : d \in {PgSyncedDB, PgLoadedDB}}
    /\ RestDB
    /\ RestSync
    /\ RestReplay
    /\ RestRun
    /\ RestFilters
    /\ RestKill
    /\ RestRows
    /\ RestFn
    /\ RestCon

\* DROP TABLE or ALTER TABLE DROP COLUMN by somebody else, after the earlier writes
DriftDrop ==
    /\ drift.step = 0
    /\ \E x \in Drops :
          LET d == IF Len(x) = 1 THEN DropTable(drift.db, x[1]) ELSE DropColumn(drift.db, x[1], x[2])
          IN drift' = [drift EXCEPT !.step = 1, !.dropped = x, !.db = d, !.before = d]
    /\ UNCHANGED besidesDrift

\* the next SetBlock
DriftWrite ==
    /\ drift.step \in {0, 1}
    /\ \E data \in {x \in Batches : CarriesKeys(x)} : \E order \in Orders(AllTables) :
          LET r == SetBlockPg(drift.db, order, data, MaxDepth)
          IN drift' = [drift EXCEPT !.step = 2, !.data = data, !.db = r.db, !.err = r.err]
    /\ UNCHANGED besidesDrift

NextDrift ==
    \/ DriftDrop
    \/ DriftWrite

SpecDrift == InitDrift /\ [][NextDrift]_vars

\* the write after the drop carries rows for the table that was dropped or lost a column
TouchesDropped == drift.step = 2 /\ drift.dropped # <<>> /\ Len(drift.data.Tables[drift.dropped[1]]) > 0

\* what was dropped is there again, under its declared name
Readded ==
    LET t == TableByName(drift.dropped[1]) IN
    /\ drift.db.live[t.Name].exists
    /\ ColumnNames(t) \subseteq drift.db.live[t.Name].cols

\* C13: after a column or table was dropped from outside, the next SetBlock that
\* touches the table returns success with the batch committed and the dropped
\* column or table added again under its declared name
DriftRecovery ==
    TouchesDropped =>
        (drift.err = OK /\ Len(drift.db.log) = Len(drift.before.log) + 1 /\ Readded)

\* C13 for a dropped table: it is created again and the batch is committed
DroppedTableRecovery ==
    (TouchesDropped /\ Len(drift.dropped) = 1) =>
        (drift.err = OK /\ Len(drift.db.log) = Len(drift.before.log) + 1 /\ Readded)

\* a write without a drop before it succeeds
UndisturbedWrite == (drift.step = 2 /\ drift.dropped = <<>>) => drift.err = OK

-----------------------------------------------------------------------------
(* Part X: SetBlock, the rows of one table of a batch *)

MaxBatchRows == 4    \* rows of one table in a batch

ActionUpsert == "upsert"
ActionDelete == "delete"

\* types.EventDataRow{Action: ..., RowData: ...}
EventDataRow(action, rowData) == [Action |-> action, RowData |-> rowData]

\* the rows a batch may carry for t1: upserts of two keys, a second value for the
\* first key, deletes of both keys, and an upsert that lacks the key
RowChoices ==
    { EventDataRow(ActionUpsert, [k |-> 1, v |-> "a"]),
      EventDataRow(ActionUpsert, [k |-> 1, v |-> "b"]),
      EventDataRow(ActionUpsert, [k |-> 2, v |-> "a"]),
      EventDataRow(ActionDelete, [k |-> 1]),
      EventDataRow(ActionDelete, [k |-> 2]),
      EventDataRow(ActionUpsert, [v |-> "a"]) }

RowBatches == UNION {[1..n -> RowChoices] : n \in 1..MaxBatchRows}

\* DELETE FROM t WHERE key columns = ...: only the key columns are bound, all of
\* them must be there
ExecDelete(d, table, rowData) ==
    LET keys == PrimaryNames(table)
        stays(r) == \E n \in keys : r[n] # rowData[n]
    IN IF ~(keys \subseteq DOMAIN rowData) THEN [err |-> errNullPK, db |-> d]
       ELSE IF ~d.live[table.Name].exists THEN [err |-> errUndefinedTable, db |-> d]
       ELSE [err |-> OK, db |-> [d EXCEPT !.rows[table.Name] = SelectSeq(@, stays)]]

\* one row of the batch: the statement its Action asks for
execRow(w, table, row) ==
    IF row.Action = ActionDelete THEN ExecDelete(w, table, row.RowData)
    ELSE LET uQuery == getUpsertQuery(table)
             p == getUpsertParams(uQuery, row.RowData)
         IN IF p.err # OK THEN [err |-> p.err, db |-> w]
            ELSE ExecUpsert(w, uQuery, p.params)

InitRows ==
    /\ rowsv \in {[db |-> d, before |-> d, w |-> d, rows |-> r, n |-> 0, pc |-> "begin", err |-> OK] :
                      d \in {SyncedDB, LoadedDB}, r \in RowBatches}
    /\ RestDB
    /\ RestSync
    /\ RestReplay
    /\ RestRun
    /\ RestFilters
    /\ RestKill
    /\ RestDrift
    /\ RestFn
    /\ RestCon

\* tx.Begin, the log row, the log detail row of the table
RowsBegin ==
    /\ rowsv.pc = "begin"
    /\ LET w0 == ExecInsertLog(rowsv.db, Cardinality(AllTables), 9)
       IN rowsv' = [rowsv EXCEPT !.w = ExecInsertLogDet(w0, w0.seq, Table1.Name, Len(rowsv.rows)),
                                 !.pc = "rows"]
    /\ UNCHANGED besidesRows

\* a loop that would take the rows of the table from the last to the first
RowsNextBackwards ==
    /\ rowsv.pc = "rows"
    /\ rowsv.n < Len(rowsv.rows)
    /\ LET e == execRow(rowsv.w, Table1, rowsv.rows[Len(rowsv.rows) - rowsv.n])
       IN IF e.err # OK
          THEN rowsv' = [rowsv EXCEPT !.w = Rollback(rowsv.db, e.db), !.db = Rollback(rowsv.db, e.db),
                                      !.pc = "done", !.err = e.err]
          ELSE rowsv' = [rowsv EXCEPT !.w = e.db, !.n = @ + 1]
    /\ UNCHANGED besidesRows

\* for _, row := range dataRows: the next row; an error ends the loop and the
\* transaction is rolled back
RowsNext ==
    /\ rowsv.pc = "rows"
    /\ rowsv.n < Len(rowsv.rows)
    /\ LET e == execRow(rowsv.w, Table1, rowsv.rows[rowsv.n + 1])
       IN IF e.err # OK
          THEN rowsv' = [rowsv EXCEPT !.w = Rollback(rowsv.db, e.db), !.db = Rollback(rowsv.db, e.db),
                                      !.pc = "done", !.err = e.err]
          ELSE rowsv' = [rowsv EXCEPT !.w = e.db, !.n = @ + 1]
    /\ UNCHANGED besidesRows

\* tx.Commit after the last row
RowsCommit ==
    /\ rowsv.pc = "rows"
    /\ rowsv.n = Len(rowsv.rows)
    /\ rowsv' = [rowsv EXCEPT !.db = rowsv.w, !.pc = "done"]
    /\ UNCHANGED besidesRows

NextRows ==
    \/ RowsBegin
    \/ RowsNext
    \/ RowsCommit

SpecRows == InitRows /\ [][NextRows]_vars

-----------------------------------------------------------------------------
(* Properties of the rows of a batch *)

RowKeys == {1, 2}

\* the rows of t1 with the key
Stored(d, k) == {i \in 1..Len(d.rows["t1"]) : d.rows["t1"][i].k = k}

\* the rows of the batch that name the key
Naming(rows, k) == {i \in 1..Len(rows) : "k" \in DOMAIN rows[i].RowData /\ rows[i].RowData.k = k}

\* the last of them
LastNaming(rows, k) == CHOOSE i \in Naming(rows, k) : \A j \in Naming(rows, k) : j <= i

-----------------------------------------------------------------------------
(* Part XI: the parameters of an upsert *)

\* a value column before and after the key, and a table without a key
Table3 ==
    [Name |-> "t3",
     Columns |-> <<SQLTableColumn("v", FALSE, 1), SQLTableColumn("k", TRUE, 2), SQLTableColumn("w", FALSE, 3)>>]
Table4 == [Name |-> "t4", Columns |-> <<SQLTableColumn("v", FALSE, 1), SQLTableColumn("w", FALSE, 2)>>]

ParamTables == {Table1, Table2, Table3, Table4}

\* rows with any of the columns k, v, w
ParamRows ==
    {[n \in S |-> IF n = "k" THEN kv ELSE IF n = "v" THEN sv ELSE "c"] :
        S \in SUBSET {"k", "v", "w"}, kv \in {1, 2}, sv \in {"a", "b"}}

InitParams ==
    /\ fn \in {[op |-> "params", in |-> [table |-> t, row |-> r], out |-> <<>>, done |-> FALSE] :
                   t \in ParamTables, r \in ParamRows}
    /\ RestDB
    /\ RestSync
    /\ RestReplay
    /\ RestRun
    /\ RestFilters
    /\ RestKill
    /\ RestDrift
    /\ RestRows
    /\ RestCon

\* pointers, value, err = getUpsertParams(uQuery, row)
GetUpsertParams ==
    /\ fn.op = "params"
    /\ ~fn.done
    /\ fn' = [fn EXCEPT !.out = getUpsertParams(getUpsertQuery(fn.in.table), fn.in.row), !.done = TRUE]
    /\ UNCHANGED besidesFn

NextParams == GetUpsertParams

SpecParams == InitParams /\ [][NextParams]_vars

\* C21: a row that lacks a primary-key column of the table is refused with the
\* null primary key error; otherwise every column the row has is bound with the
\* row's value, at its insert position and, when it is no key, at its update
\* position, and every column the row lacks is bound NULL at both
PrimaryKeyBinding ==
    (fn.op = "params" /\ fn.done) =>
        LET t == fn.in.table
            row == fn.in.row
            u == getUpsertQuery(t)
            ins(n) == fn.out.containers[u.Columns[n].InsPosition + 1]
            upd(n) == fn.out.containers[u.Columns[n].UpdPosition + 1]
        IN IF \E n \in PrimaryNames(t) : n \notin DOMAIN row
           THEN fn.out.err = errNullPK
           ELSE /\ fn.out.err = OK
                /\ Len(fn.out.containers) = Len(t.Columns) + Cardinality(ColumnNames(t) \ PrimaryNames(t))
                /\ \A n \in ColumnNames(t) :
                      IF n \in DOMAIN row
                      THEN /\ ins(n).Valid /\ ins(n).String = row[n]
                           /\ n \notin PrimaryNames(t) => (upd(n).Valid /\ upd(n).String = row[n])
                      ELSE ~ins(n).Valid /\ ~upd(n).Valid

\* the row has the key of t3 and the value column after it, not the one before:
\* the latter is NULL at its insert and at its update position
AbsentColumnBoundNull ==
    /\ fn.op = "params"
    /\ fn.done
    /\ fn.in.table = Table3
    /\ fn.in.row = [k |-> 1, w |-> "c"]
    /\ fn.out.err = OK
    /\ ~fn.out.containers[1].Valid
    /\ ~fn.out.containers[4].Valid
    /\ fn.out.containers[2] = NullString(1, TRUE)

-----------------------------------------------------------------------------
(* Part XII: a table without a primary key, written twice *)

\* t1 and t2 as a specification without a primary column declares them
Table1NoKey == [Name |-> "t1", Columns |-> <<SQLTableColumn("k", FALSE, 1), SQLTableColumn("v", FALSE, 2)>>]
Table2NoKey == [Name |-> "t2", Columns |-> <<SQLTableColumn("k", FALSE, 1)>>]

AppendTables == {Table1, Table2, Table1NoKey, Table2NoKey}

\* rows that have every column of the table, or lack the value
AppendRows(table) ==
    IF table.Name = "t1"
    THEN {[k |-> 1, v |-> "a"], [k |-> 1, v |-> "b"], [k |-> 2, v |-> "a"], [k |-> 1]}
    ELSE {[k |-> 1], [k |-> 2]}

\* the batch of one row for the table
OneRowBatch(table, height, row) ==
    [Block |-> height, Tables |-> [n \in TableNames |-> IF n = table.Name THEN <<row>> ELSE <<>>]]

InitAppend ==
    /\ \E t \in AppendTables : \E r1, r2 \in AppendRows(t) :
          fn = [op |-> "append", in |-> [table |-> t, first |-> r1, second |-> r2],
                out |-> [db |-> EmptyDB, errs |-> <<>>], done |-> FALSE]
    /\ RestDB
    /\ RestSync
    /\ RestReplay
    /\ RestRun
    /\ RestFilters
    /\ RestKill
    /\ RestDrift
    /\ RestRows
    /\ RestCon

\* SynchronizeDB creates the table
AppendSynchronize ==
    /\ fn.op = "append"
    /\ fn.out.errs = <<>>
    /\ LET s == SynchronizeDB(fn.out.db, <<fn.in.table>>, 1)
       IN fn' = [fn EXCEPT !.out = [db |-> s.db, errs |-> <<s.err>>]]
    /\ UNCHANGED besidesFn

\* SetBlock with the first row, then with the second
AppendSetBlock ==
    /\ fn.op = "append"
    /\ Len(fn.out.errs) \in {1, 2}
    /\ LET row == IF Len(fn.out.errs) = 1 THEN fn.in.first ELSE fn.in.second
           r == SetBlock(fn.out.db, <<fn.in.table>>, OneRowBatch(fn.in.table, Len(fn.out.errs), row), MaxDepth)
       IN fn' = [fn EXCEPT !.out = [db |-> r.db, errs |-> Append(fn.out.errs, r.err)],
                           !.done = Len(fn.out.errs) = 2]
    /\ UNCHANGED besidesFn

NextAppend ==
    \/ AppendSynchronize
    \/ AppendSetBlock

SpecAppend == InitAppend /\ [][NextAppend]_vars

\* the columns the conflict clause of the statement sets
UpdatedColumns(uQuery) == {n \in DOMAIN uQuery.Columns : uQuery.Columns[n].UpdPosition > 0}

\* C22: for a table without a primary column the statement ends in DO NOTHING
\* and writing a row and then the same row again succeeds, leaving two rows;
\* for a table with a primary column the conflict clause sets exactly the
\* columns that are not primary
AppendWithoutKey ==
    (fn.op = "append" /\ fn.done) =>
        LET t == fn.in.table
            u == getUpsertQuery(t)
        IN IF PrimaryNames(t) = {}
           THEN /\ ~u.doUpdate
                /\ fn.in.first = fn.in.second =>
                      (fn.out.errs = <<OK, OK, OK>> /\ Len(fn.out.db.rows[t.Name]) = 2)
           ELSE /\ UpdatedColumns(u) = ColumnNames(t) \ PrimaryNames(t)
                /\ u.doUpdate <=> UpdatedColumns(u) # {}

\* what does hold: with a primary column the second write of a key replaces
\* the values of the first
KeyedWriteTwice ==
    (fn.op = "append" /\ fn.done /\ fn.in.table = Table1 /\ fn.in.first.k = fn.in.second.k) =>
        /\ fn.out.errs = <<OK, OK, OK>>
        /\ Len(fn.out.db.rows["t1"]) = 1
        /\ fn.out.db.rows["t1"][1].v = (IF "v" \in DOMAIN fn.in.second THEN fn.in.second.v ELSE NULL)

-----------------------------------------------------------------------------
(* Part XIII: GetBlock reads back what SetBlock wrote *)

\* t1 and t2 with the column the table query selects on
Table1Height ==
    [Name |-> "t1",
     Columns |-> <<SQLTableColumn("k", TRUE, 1), SQLTableColumn("height", FALSE, 2), SQLTableColumn("v", FALSE, 3)>>]
Table2Height == [Name |-> "t2", Columns |-> <<SQLTableColumn("k", TRUE, 1), SQLTableColumn("height", FALSE, 2)>>]

BlockOrder == <<Table1Height, Table2Height>>

\* the rows of a batch carry the height of the batch
BlockRows1(h) ==
    { <<>>,
      <<[k |-> 1, height |-> h, v |-> "a"]>>,
      <<[k |-> 1, height |-> h, v |-> "a"], [k |-> 2, height |-> h, v |-> "b"]>>,
      <<[k |-> 2, height |-> h]>> }

BlockRows2(h) == { <<>>, <<[k |-> 1, height |-> h]>> }

BlockBatches(h) == {[Block |-> h, Tables |-> [t1 |-> r1, t2 |-> r2]] : r1 \in BlockRows1(h), r2 \in BlockRows2(h)}

\* the text a value is scanned to in a sql.NullString
Itoa(n) == <<"0", "1", "2", "3", "4", "5", "6", "7", "8", "9">>[n + 1]
NumberColumns == {"k", "height"}
ScanText(column, value) == IF column \in NumberColumns THEN Itoa(value) ELSE value

\* whether the stored value is NULL (every row of these batches binds its number columns)
IsNull(column, value) == column \notin NumberColumns /\ value = NULL

\* SELECT tblname, tblmap FROM _bosmarmot_log l INNER JOIN _bosmarmot_logdet d ON l.id = d.id WHERE height = $1
\* the names of the tables, each with the columns the dictionary holds for it
getBlockTables(d, block) ==
    LET ids == {d.log[i].id : i \in {j \in 1..Len(d.log) : d.log[j].height = block}}
    IN {r.tblname : r \in {x \in d.det : x.id \in ids}}

\* SELECT fields FROM schema.table WHERE height='...': no query without a field
getTableQuery(d, tname, height) ==
    LET fields == getTableDef(d, tname)
    IN IF fields = {} THEN [err |-> errGeneric, fields |-> {}, table |-> tname, height |-> height]
       ELSE [err |-> OK, fields |-> fields, table |-> tname, height |-> height]

\* db.DB.Query: the open result set of the table query
Query(d, query) ==
    LET lv == d.live[query.table]
        AtHeight(row) == row["height"] = query.height
    IN IF ~lv.exists THEN [err |-> errUndefinedTable, result |-> <<>>, pos |-> 0, closed |-> TRUE]
       ELSE IF ~((query.fields \cup {"height"}) \subseteq lv.cols)
            THEN [err |-> errUndefinedColumn, result |-> <<>>, pos |-> 0, closed |-> TRUE]
       ELSE [err |-> OK, result |-> SelectSeq(d.rows[query.table], AtHeight), pos |-> 0, closed |-> FALSE]

\* sql.Rows: Close, and Next, which is false on a closed result set
RowsClose(rows) == [rows EXCEPT !.closed = TRUE]
RowsHasNext(rows) == ~rows.closed /\ rows.pos < Len(rows.result)

\* Scan into the containers, and the row of the columns that are not NULL
ScanRow(rows, cols) ==
    LET stored == rows.result[rows.pos + 1]
        containers == [c \in cols |->
                          IF IsNull(c, stored[c]) THEN NullString("", FALSE)
                          ELSE NullString(ScanText(c, stored[c]), TRUE)]
        valid == {c \in cols : containers[c].Valid}
    IN [c \in valid |-> containers[c].String]

\* for rows.Next() { ... dataRows = append(dataRows, row) }
RECURSIVE ScanRows(_, _, _)
ScanRows(rows, cols, dataRows) ==
    IF ~RowsHasNext(rows) THEN dataRows
    ELSE ScanRows([rows EXCEPT !.pos = @ + 1], cols, Append(dataRows, ScanRow(rows, cols)))

\* the loop body that iterates the result set and closes it afterwards
ReadTableIterateFirst(d, tname, block) ==
    LET query == getTableQuery(d, tname, block)
        rows == Query(d, query)
    IN IF query.err # OK THEN [err |-> query.err, dataRows |-> <<>>]
       ELSE IF rows.err # OK THEN [err |-> rows.err, dataRows |-> <<>>]
       ELSE [err |-> OK, dataRows |-> ScanRows(rows, query.fields, <<>>)]

\* one table of GetBlock: the query, rows.Columns(), rows.Close(), and only then the loop
ReadTable(d, tname, block) ==
    LET query == getTableQuery(d, tname, block)
        rows == Query(d, query)
    IN IF query.err # OK THEN [err |-> query.err, dataRows |-> <<>>]
       ELSE IF rows.err # OK THEN [err |-> rows.err, dataRows |-> <<>>]
       ELSE [err |-> OK, dataRows |-> ScanRows(RowsClose(rows), query.fields, <<>>)]

\* GetBlock: every table the log names for the block; the first error ends it
\* (no data is used then: which tables were read before it depends on the map order)
GetBlock(d, block) ==
    LET tables == getBlockTables(d, block)
        failed == {t \in tables : ReadTable(d, t, block).err # OK}
    IN IF failed # {}
       THEN [err |-> ReadTable(d, CHOOSE t \in failed : TRUE, block).err,
             data |-> [Block |-> block, Tables |-> <<>>]]
       ELSE [err |-> OK,
             data |-> [Block |-> block, Tables |-> [t \in tables |-> ReadTable(d, t, block).dataRows]]]

BlockSyncedDB == SynchronizeDB(EmptyDB, BlockOrder, 1).db

InitGetBlock ==
    /\ \E b1 \in BlockBatches(1) : \E b2 \in BlockBatches(2) :
          fn = [op |-> "getblock", in |-> <<b1, b2>>,
                out |-> [db |-> BlockSyncedDB, errs |-> <<>>, err |-> OK,
                         data |-> [Block |-> 0, Tables |-> <<>>]],
                done |-> FALSE]
    /\ RestDB
    /\ RestSync
    /\ RestReplay
    /\ RestRun
    /\ RestFilters
    /\ RestKill
    /\ RestDrift
    /\ RestRows
    /\ RestCon

\* SetBlock with the next batch
BlockWrite ==
    /\ fn.op = "getblock"
    /\ ~fn.done
    /\ Len(fn.out.errs) < Len(fn.in)
    /\ LET r == SetBlock(fn.out.db, BlockOrder, fn.in[Len(fn.out.errs) + 1], MaxDepth)
       IN fn' = [fn EXCEPT !.out.db = r.db, !.out.errs = Append(@, r.err)]
    /\ UNCHANGED besidesFn

\* GetBlock of a height that was written
BlockRead ==
    /\ fn.op = "getblock"
    /\ ~fn.done
    /\ \E h \in 1..Len(fn.out.errs) :
          LET r == GetBlock(fn.out.db, h)
          IN fn' = [fn EXCEPT !.out.err = r.err, !.out.data = r.data, !.done = TRUE]
    /\ UNCHANGED besidesFn

NextGetBlock ==
    \/ BlockWrite
    \/ BlockRead

SpecGetBlock == InitGetBlock /\ [][NextGetBlock]_vars

\* the rows the table holds for the height, as text, NULL columns left out
StoredAtHeight(d, tname, h) ==
    LET AtHeight(row) == row["height"] = h
        held == SelectSeq(d.rows[tname], AtHeight)
    IN [i \in 1..Len(held) |->
           [c \in {x \in DOMAIN held[i] : ~IsNull(x, held[i][x])} |-> ScanText(c, held[i][c])]]

\* C23: after SetBlock succeeded for height h, GetBlock(h) returns Block = h and,
\* for every table the batch wrote to, exactly the rows stored for height h;
\* never an empty list for a table that holds rows at h
BlockReadBack ==
    (fn.op = "getblock" /\ fn.done) =>
        LET h == fn.out.data.Block
        IN fn.out.errs[h] = OK =>
              /\ fn.out.err = OK
              /\ \A t \in {"t1", "t2"} :
                    fn.in[h].Tables[t] # <<>> =>
                       /\ t \in DOMAIN fn.out.data.Tables
                       /\ fn.out.data.Tables[t] = StoredAtHeight(fn.out.db, t, h)

\* what does hold: Block is the height asked for, and every table the log
\* names for the height is in the result, with no rows
BlockReadEmpty ==
    (fn.op = "getblock" /\ fn.done) =>
        /\ fn.out.err = OK
        /\ fn.out.data.Block \in 1..Len(fn.out.errs)
        /\ DOMAIN fn.out.data.Tables = {"t1", "t2"}
        /\ \A t \in DOMAIN fn.out.data.Tables : fn.out.data.Tables[t] = <<>>

-----------------------------------------------------------------------------
(* Part XIV: from an event to the row of its table *)

\* the columns every table gets, under the labels of the decoded data
getGlobalColumns ==
    [label \in {"height", "txHash", "eventType", "eventName"} |->
        CASE label = "height" -> SQLTableColumn("_height", FALSE, 1)
          [] label = "txHash" -> SQLTableColumn("_txhash", FALSE, 2)
          [] label = "eventType" -> SQLTableColumn("_eventtype", FALSE, 3)
          [] label = "eventName" -> SQLTableColumn("_eventname", FALSE, 4)]

SystemColumns == {getGlobalColumns[label].Name : label \in DOMAIN getGlobalColumns}

\* the columns of the table of the binding, by the name of the field they map:
\* one input of the event, primary or not, and the global columns
DecodeColumns(primary) ==
    [field \in {"x"} \cup DOMAIN getGlobalColumns |->
        IF field \in DOMAIN getGlobalColumns THEN getGlobalColumns[field]
        ELSE SQLTableColumn("x", primary, 5)]

DecodeTable(primary) ==
    LET columns == DecodeColumns(primary)
    IN [Name |-> "t1",
        Columns |-> [o \in 1..5 |-> columns[CHOOSE f \in DOMAIN columns : columns[f].Order = o]]]

\* Parser.GetColumn: the column of the field, if the table has one
GetColumn(columns, columnName) ==
    IF columnName \in DOMAIN columns THEN [err |-> OK, column |-> columns[columnName]]
    ELSE [err |-> errGeneric, column |-> Unset]

\* the events of the ABI, by id
EventsById == {"Ev"}

\* events as the stream delivers them: the id in the first topic, the header,
\* the name and the value of the one input, and whether the data unpacks
DecodeEvents ==
    [id : {"Ev", "Other"}, Height : Heights, TxHash : {"aa", "bb"}, EventType : {"LogEvent"},
     input : {"x", "height"}, value : {"a", "b"}, unpacks : BOOLEAN]

\* decodeEvent: the name and the header under their labels, then the inputs
decodeEvent(event) ==
    LET header == [l \in {"eventName", "height", "eventType", "txHash"} |->
                      CASE l = "eventName" -> event.id
                        [] l = "height" -> Itoa(event.Height)
                        [] l = "eventType" -> event.EventType
                        [] l = "txHash" -> event.TxHash]
    IN IF event.id \notin EventsById THEN [err |-> "Abi spec not found", data |-> <<>>]
       ELSE IF ~event.unpacks THEN [err |-> "Could not unpack event data", data |-> <<>>]
       ELSE [err |-> OK,
             data |-> [l \in DOMAIN header \cup {event.input} |->
                          IF l = event.input THEN event.value ELSE header[l]]]

\* the row of the event: every decoded field the table has a column for, under
\* the name of the column; nil with the error of the decoder
buildRow(columns, event) ==
    LET d == decodeEvent(event)
        mapped == {l \in DOMAIN d.data : GetColumn(columns, l).err = OK}
        names == {GetColumn(columns, l).column.Name : l \in mapped}
    IN IF d.err # OK THEN [err |-> d.err, row |-> <<>>]
       ELSE [err |-> OK,
             row |-> [n \in names |-> d.data[CHOOSE l \in mapped : GetColumn(columns, l).column.Name = n]]]

InitDecode ==
    /\ \E e \in DecodeEvents : \E p \in BOOLEAN :
          fn = [op |-> "decode", in |-> [event |-> e, primary |-> p],
                out |-> [batch |-> <<>>, doneCh |-> OK, pc |-> "build", containers |-> <<>>, err |-> OK],
                done |-> FALSE]
    /\ RestDB
    /\ RestSync
    /\ RestReplay
    /\ RestRun
    /\ RestFilters
    /\ RestKill
    /\ RestDrift
    /\ RestRows
    /\ RestCon

\* a loop body that would add the rows of decoded events only
DecodeAddRowOrReturn ==
    /\ fn.op = "decode"
    /\ fn.out.pc = "build"
    /\ LET b == buildRow(DecodeColumns(fn.in.primary), fn.in.event)
       IN fn' = [fn EXCEPT !.out.batch = IF b.err = OK THEN Append(@, b.row) ELSE @,
                           !.out.doneCh = b.err, !.out.pc = "select"]
    /\ UNCHANGED besidesFn

\* the body of the loop over the matching bindings: an error of buildEventData
\* is sent on doneCh, and with or without it the row is added to the batch
DecodeAddRow ==
    /\ fn.op = "decode"
    /\ fn.out.pc = "build"
    /\ LET b == buildRow(DecodeColumns(fn.in.primary), fn.in.event)
       IN fn' = [fn EXCEPT !.out.batch = Append(@, b.row), !.out.doneCh = b.err, !.out.pc = "select"]
    /\ UNCHANGED besidesFn

\* the main loop takes the error and Run returns
DecodeDone ==
    /\ fn.op = "decode"
    /\ fn.out.pc = "select"
    /\ fn.out.doneCh # OK
    /\ fn' = [fn EXCEPT !.out.pc = "returned", !.out.err = fn.out.doneCh, !.done = TRUE]
    /\ UNCHANGED besidesFn

\* the main loop takes the batch: the values bound for its row
DecodeStore ==
    /\ fn.op = "decode"
    /\ fn.out.pc = "select"
    /\ fn.out.doneCh = OK
    /\ LET p == getUpsertParams(getUpsertQuery(DecodeTable(fn.in.primary)), fn.out.batch[1])
       IN fn' = [fn EXCEPT !.out.pc = "stored", !.out.containers = p.containers, !.out.err = p.err,
                           !.done = TRUE]
    /\ UNCHANGED besidesFn

NextDecode ==
    \/ DecodeAddRow
    \/ DecodeDone
    \/ DecodeStore

SpecDecode == InitDecode /\ [][NextDecode]_vars

\* C24: every row the loop adds to a batch for an event, and hence every row
\* stored, has values for _height, _txhash, _eventname and _eventtype
SystemColumnsPopulated ==
    fn.op = "decode" =>
        /\ \A i \in 1..Len(fn.out.batch) : SystemColumns \subseteq DOMAIN fn.out.batch[i]
        /\ (fn.out.pc = "stored" /\ fn.out.err = OK) =>
              \A p \in 1..4 : fn.out.containers[p].Valid

\* what does hold: the rows that are stored have the four values
StoredSystemColumns ==
    (fn.op = "decode" /\ fn.out.pc = "stored" /\ fn.out.err = OK) =>
        /\ fn.out.containers[1] = NullString(Itoa(fn.in.event.Height), TRUE) \/ fn.in.event.input = "height"
        /\ fn.out.containers[2] = NullString(fn.in.event.TxHash, TRUE)
        /\ fn.out.containers[3] = NullString(fn.in.event.EventType, TRUE)
        /\ fn.out.containers[4] = NullString(fn.in.event.id, TRUE)

-----------------------------------------------------------------------------
(* Part XV: getSQLType *)

\* the type names of the event inputs, letter by letter
EventInputType ==
    [address |-> <<"a", "d", "d", "r", "e", "s", "s">>,
     bool    |-> <<"b", "o", "o", "l">>,
     bytes   |-> <<"b", "y", "t", "e", "s">>,
     string  |-> <<"s", "t", "r", "i", "n", "g">>,
     int     |-> <<"i", "n", "t">>,
     uint    |-> <<"u", "i", "n", "t">>]

\* a type name no input type has
TypeUnknown == <<"t", "y", "p", "e", "u", "n", "k", "n", "o", "w", "n">>

\* the widths a signature may carry, and what may follow them
Widths == {8 * i : i \in 1..32}
Tails == {<<>>, <<"x">>, <<"e", "g", "e", "r">>}

\* the decimal digits of a number
RECURSIVE DigitsOf(_)
DigitsOf(n) == IF n < 10 THEN <<Itoa(n)>> ELSE Append(DigitsOf(n \div 10), Itoa(n % 10))

\* a signature: a name, the digits of a width (none for width 0), a tail
SignatureParts ==
    [base : DOMAIN EventInputType \cup {"typeunknown"}, width : {0} \cup Widths, tail : Tails]

Spelled(base) == IF base = "typeunknown" THEN TypeUnknown ELSE EventInputType[base]

Signature(parts) ==
    Spelled(parts.base) \o (IF parts.width = 0 THEN <<>> ELSE DigitsOf(parts.width)) \o parts.tail

\* strings.HasPrefix
HasPrefix(str, prefix) == Len(str) >= Len(prefix) /\ SubSeq(str, 1, Len(prefix)) = prefix

IsDigit(c) == c \in {"0", "1", "2", "3", "4", "5", "6", "7", "8", "9"}

\* regexp "[0-9]+", FindString: the leftmost longest run of digits, or the empty string
FindString(str) ==
    LET digitAt == {i \in 1..Len(str) : IsDigit(str[i])}
        first == CHOOSE i \in digitAt : \A j \in digitAt : i <= j
        last == CHOOSE i \in first..Len(str) :
                    /\ \A j \in first..i : IsDigit(str[j])
                    /\ i = Len(str) \/ ~IsDigit(str[i + 1])
    IN IF digitAt = {} THEN <<>> ELSE SubSeq(str, first, last)

\* strconv.Atoi with its error dropped: 0 for the empty string
RECURSIVE Atoi(_)
Atoi(digits) ==
    IF digits = <<>> THEN 0
    ELSE 10 * Atoi(SubSeq(digits, 1, Len(digits) - 1))
         + (CHOOSE d \in 0..9 : Itoa(d) = digits[Len(digits)])

SQLType(type, length) == [err |-> OK, type |-> type, length |-> length]

\* a mapping with one threshold for int and uint
getSQLTypeOneThreshold(evmSignature, bytesToString) ==
    LET typeSize == Atoi(FindString(evmSignature))
    IN IF evmSignature = EventInputType.address THEN SQLType("VARCHAR", 40)
       ELSE IF evmSignature = EventInputType.bool THEN SQLType("BOOL", 0)
       ELSE IF HasPrefix(evmSignature, EventInputType.bytes)
            THEN IF bytesToString THEN SQLType("VARCHAR", 40) ELSE SQLType("BYTEA", 0)
       ELSE IF evmSignature = EventInputType.string THEN SQLType("TEXT", 0)
       ELSE IF HasPrefix(evmSignature, EventInputType.int) \/ HasPrefix(evmSignature, EventInputType.uint)
            THEN IF typeSize <= 32 THEN SQLType("INT", 0) ELSE SQLType("NUMERIC", 0)
       ELSE [err |-> "Don't know how to map evmSignature", type |-> "", length |-> 0]

\* getSQLType: the first case that applies, in the order of the switch
getSQLType(evmSignature, bytesToString) ==
    LET typeSize == Atoi(FindString(evmSignature))
    IN IF evmSignature = EventInputType.address THEN SQLType("VARCHAR", 40)
       ELSE IF evmSignature = EventInputType.bool THEN SQLType("BOOL", 0)
       ELSE IF HasPrefix(evmSignature, EventInputType.bytes)
            THEN IF bytesToString THEN SQLType("VARCHAR", 40) ELSE SQLType("BYTEA", 0)
       ELSE IF evmSignature = EventInputType.string THEN SQLType("TEXT", 0)
       ELSE IF HasPrefix(evmSignature, EventInputType.int)
            THEN IF typeSize <= 32 THEN SQLType("INT", 0) ELSE SQLType("NUMERIC", 0)
       ELSE IF HasPrefix(evmSignature, EventInputType.uint)
            THEN IF typeSize <= 16 THEN SQLType("INT", 0) ELSE SQLType("NUMERIC", 0)
       ELSE [err |-> "Don't know how to map evmSignature", type |-> "", length |-> 0]

InitTypes ==
    /\ \E parts \in SignatureParts : \E b \in BOOLEAN :
          fn = [op |-> "getSQLType", in |-> [parts |-> parts, bytesToString |-> b],
                out |-> [err |-> OK, type |-> "", length |-> 0], done |-> FALSE]
    /\ RestDB
    /\ RestSync
    /\ RestReplay
    /\ RestRun
    /\ RestFilters
    /\ RestKill
    /\ RestDrift
    /\ RestRows
    /\ RestCon

GetSQLType ==
    /\ fn.op = "getSQLType"
    /\ ~fn.done
    /\ fn' = [fn EXCEPT !.out = getSQLType(Signature(fn.in.parts), fn.in.bytesToString), !.done = TRUE]
    /\ UNCHANGED besidesFn

NextTypes == GetSQLType

SpecTypes == InitTypes /\ [][NextTypes]_vars

\* the signature is the plain name, or the name with a width
Plain(parts, base) == parts.base = base /\ parts.width = 0 /\ parts.tail = <<>>
Sized(parts, base) == parts.base = base /\ parts.width > 0 /\ parts.tail = <<>>

UnknownTypesRejected ==
    (fn.op = "getSQLType" /\ fn.done) =>
        LET parts == fn.in.parts
            known == \/ \E b \in {"address", "bool", "string"} : Plain(parts, b)
                     \/ \E b \in {"bytes", "int", "uint"} : Plain(parts, b) \/ Sized(parts, b)
        IN ~known => fn.out.err # OK

\* what does hold: a signature that is none of the names and starts with none
\* of bytes, int, uint is an error
UnknownNameRejected ==
    (fn.op = "getSQLType" /\ fn.done) =>
        LET parts == fn.in.parts
            other == \/ parts.base = "typeunknown"
                     \/ parts.base \in {"address", "bool", "string"} /\ ~Plain(parts, parts.base)
        IN other => fn.out.err # OK

\* the bits of the values of an integer type: 256 without a width
Bits(parts) == IF parts.width = 0 THEN 256 ELSE parts.width

\* every value of the type is in -2^63 .. 2^63 - 1: intN for N <= 64, uintN for N <= 63
FitsInt64(parts) == IF parts.base = "int" THEN Bits(parts) <= 64 ELSE Bits(parts) <= 63

\* C27: whenever the result is INT for an integer type, sized or not, every
\* value of the type is within the signed 64-bit range
NativeIntegerFits ==
    (/\ fn.op = "getSQLType"
     /\ fn.done
     /\ fn.in.parts.base \in {"int", "uint"}
     /\ fn.in.parts.tail = <<>>
     /\ fn.out.err = OK
     /\ fn.out.type = "INT") => FitsInt64(fn.in.parts)

\* what does hold: with a width, INT is chosen only when the values fit
SizedIntegerFits ==
    (/\ fn.op = "getSQLType"
     /\ fn.done
     /\ \E b \in {"int", "uint"} : Sized(fn.in.parts, b)
     /\ fn.out.type = "INT") => FitsInt64(fn.in.parts)

-----------------------------------------------------------------------------
(* Part XVI: NewParserFromEventSpec *)

\* the names of the global columns, letter by letter
GlobalName ==
    [label \in DOMAIN getGlobalColumns |->
        CASE label = "height" -> <<"_", "h", "e", "i", "g", "h", "t">>
          [] label = "txHash" -> <<"_", "t", "x", "h", "a", "s", "h">>
          [] label = "eventType" -> <<"_", "e", "v", "e", "n", "t", "t", "y", "p", "e">>
          [] label = "eventName" -> <<"_", "e", "v", "e", "n", "t", "n", "a", "m", "e">>]

\* strings.ToLower, on the letters the names below are made of
LowerLetter(c) ==
    CASE c = "T" -> "t"
      [] c = "U" -> "u"
      [] c = "X" -> "x"
      [] c = "H" -> "h"
      [] OTHER -> c
LowerName(name) == [i \in 1..Len(name) |-> LowerLetter(name[i])]

\* the columns a specification may declare for a field: the name of the column,
\* its type, whether it is primary
UintType == [base |-> "uint", width |-> 0, tail |-> <<>>]
UnknownType == [base |-> "typeunknown", width |-> 0, tail |-> <<>>]

EventColumns(field) ==
    [Name : {<<"x">>, <<"X">>, <<"y">>, GlobalName["height"]}
            \cup (IF field = "a" THEN {<<"_", "i", "d">>, <<"u", "x">>} ELSE {}),
     Type : IF field = "b" THEN {UintType, UnknownType} ELSE {UintType},
     Primary : {FALSE},
     BytesToString : {FALSE}]

\* the column maps of an entry: some of the fields a, b and height, each with a column
ColumnMaps ==
    UNION {[fields -> UNION {EventColumns(f) : f \in fields}] : fields \in (SUBSET {"a", "b", "height"}) \ {{}}}

EventDefinition(tableName, columns) == [TableName |-> tableName, Filter |-> "f", Columns |-> columns]

\* the second entry of a specification, when it has one
SecondColumns == [f \in {"a"} |-> [Name |-> <<"x">>, Type |-> UintType, Primary |-> FALSE, BytesToString |-> FALSE]]

\* specifications of one or two entries
EventSpecs ==
    {<<EventDefinition(<<"T">>, c)>> : c \in {m \in ColumnMaps : \A f \in DOMAIN m : m[f] \in EventColumns(f)}}
    \cup {<<EventDefinition(<<"T">>, c), EventDefinition(n, SecondColumns)>> :
             c \in {m \in ColumnMaps : \A f \in DOMAIN m : m[f] \in EventColumns(f)},
             n \in {<<"T">>, <<"t">>, <<"u">>, <<"t", "u">>}}

\* EventDefinition.Validate: a table name, a filter and at least one column
Validate(eventDef) ==
    IF eventDef.TableName = <<>> \/ eventDef.Filter = "" \/ DOMAIN eventDef.Columns = {}
    THEN errGeneric ELSE OK

\* the columns of an entry: the user columns numbered in the order the map is
\* ranged over, after the global columns, which replace a user column of their label
ParseColumns(eventDef, order) ==
    LET types == [f \in DOMAIN eventDef.Columns |->
                     getSQLType(LowerName(Signature(eventDef.Columns[f].Type)), eventDef.Columns[f].BytesToString)]
        globalColumnsLength == Cardinality(DOMAIN getGlobalColumns)
        j(f) == CHOOSE i \in DOMAIN order : order[i] = f
    IN IF \E f \in DOMAIN types : types[f].err # OK
       THEN [err |-> "Don't know how to map evmSignature", columns |-> <<>>]
       ELSE [err |-> OK,
             columns |-> [f \in DOMAIN eventDef.Columns \cup DOMAIN getGlobalColumns |->
                             IF f \in DOMAIN getGlobalColumns
                             THEN [Name |-> GlobalName[f], Primary |-> FALSE, Order |-> getGlobalColumns[f].Order]
                             ELSE [Name |-> LowerName(eventDef.Columns[f].Name),
                                   Primary |-> eventDef.Columns[f].Primary,
                                   Order |-> j(f) + globalColumnsLength]]]

\* the entries in turn: tables[eventDef.TableName] = the table, under the name as written
RECURSIVE ParseTables(_, _, _, _)
ParseTables(eventSpec, orders, i, tables) ==
    IF i > Len(eventSpec) THEN [err |-> OK, tables |-> tables]
    ELSE LET eventDef == eventSpec[i]
             c == ParseColumns(eventDef, orders[i])
             table == [Name |-> LowerName(eventDef.TableName), Filter |-> eventDef.Filter, Columns |-> c.columns]
         IN IF Validate(eventDef) # OK THEN [err |-> Validate(eventDef), tables |-> <<>>]
            ELSE IF c.err # OK THEN [err |-> c.err, tables |-> <<>>]
            ELSE ParseTables(eventSpec, orders, i + 1,
                             [n \in DOMAIN tables \cup {eventDef.TableName} |->
                                 IF n = eventDef.TableName THEN table ELSE tables[n]])

\* colName[tbls.Name+cols.Name]++ over every column of every table: some count above 1
DuplicatedColumn(tables) ==
    LET pairs == {<<n, f>> \in (DOMAIN tables) \X {"a", "b", "height", "txHash", "eventType", "eventName"} :
                     f \in DOMAIN tables[n].Columns}
        key(p) == tables[p[1]].Name \o tables[p[1]].Columns[p[2]].Name
    IN \E p, q \in pairs : p # q /\ key(p) = key(q)

\* a parser that would not look for duplicated columns
NewParserNoDuplicateCheck(eventSpec, orders) ==
    LET t == ParseTables(eventSpec, orders, 1, <<>>)
    IN [err |-> t.err, Tables |-> t.tables]

NewParserFromEventSpec(eventSpec, orders) ==
    LET t == ParseTables(eventSpec, orders, 1, <<>>)
    IN IF t.err # OK THEN [err |-> t.err, Tables |-> <<>>]
       ELSE IF DuplicatedColumn(t.tables) THEN [err |-> "Duplicated column name", Tables |-> <<>>]
       ELSE [err |-> OK, Tables |-> t.tables]

\* createTable places the columns by their Order; with an Order beyond the
\* columns it has no statement (an error, or an index out of range)
CreateTableColumns(table) ==
    LET n == Cardinality(DOMAIN table.Columns)
    IN IF {table.Columns[f].Order : f \in DOMAIN table.Columns} = 1..n
       THEN [err |-> OK,
             columns |-> [o \in 1..n |-> table.Columns[CHOOSE f \in DOMAIN table.Columns : table.Columns[f].Order = o].Name]]
       ELSE [err |-> errTableDef, columns |-> <<>>]

\* the orders in which the maps of the entries may be ranged over
RangeOrders(eventSpec) ==
    {os \in [1..Len(eventSpec) -> UNION {Orders(DOMAIN eventSpec[i].Columns) : i \in 1..Len(eventSpec)}] :
        \A i \in 1..Len(eventSpec) : os[i] \in Orders(DOMAIN eventSpec[i].Columns)}

NotParsed == [err |-> "not parsed", Tables |-> <<>>]

InitParser ==
    /\ \E eventSpec \in EventSpecs :
          fn = [op |-> "parse", in |-> eventSpec, out |-> <<NotParsed, NotParsed>>, done |-> FALSE]
    /\ RestDB
    /\ RestSync
    /\ RestReplay
    /\ RestRun
    /\ RestFilters
    /\ RestKill
    /\ RestDrift
    /\ RestRows
    /\ RestCon

\* the specification is parsed
ParseFirst ==
    /\ fn.op = "parse"
    /\ fn.out[1] = NotParsed
    /\ \E orders \in RangeOrders(fn.in) :
          fn' = [fn EXCEPT !.out[1] = NewParserFromEventSpec(fn.in, orders)]
    /\ UNCHANGED besidesFn

\* the same specification is parsed again
ParseSecond ==
    /\ fn.op = "parse"
    /\ fn.out[1] # NotParsed
    /\ ~fn.done
    /\ \E orders \in RangeOrders(fn.in) :
          fn' = [fn EXCEPT !.out[2] = NewParserFromEventSpec(fn.in, orders), !.done = TRUE]
    /\ UNCHANGED besidesFn

NextParser ==
    \/ ParseFirst
    \/ ParseSecond

SpecParser == InitParser /\ [][NextParser]_vars

\* no column of the entries up to i has a type that is not known
TypesKnown(eventSpec) ==
    \A i \in 1..Len(eventSpec) : \A f \in DOMAIN eventSpec[i].Columns : eventSpec[i].Columns[f].Type # UnknownType

\* two entries name the same table once lowercased
SameTableTwice(eventSpec) ==
    \E i, k \in 1..Len(eventSpec) : i # k /\ LowerName(eventSpec[i].TableName) = LowerName(eventSpec[k].TableName)

\* an entry declares two columns, its own or the global ones, of one name once lowercased
SameColumnTwice(eventDef) ==
    \/ \E f, g \in DOMAIN eventDef.Columns :
          f # g /\ LowerName(eventDef.Columns[f].Name) = LowerName(eventDef.Columns[g].Name)
    \/ \E f \in DOMAIN eventDef.Columns : \E l \in DOMAIN GlobalName :
          LowerName(eventDef.Columns[f].Name) = GlobalName[l]

\* C28: a specification with two entries whose table names are equal once
\* lowercased is not parsed: the error is that of a duplicated table
DuplicateTablesRejected ==
    (fn.op = "parse" /\ fn.out[1] # NotParsed /\ SameTableTwice(fn.in)) =>
        /\ fn.out[1].err # OK
        /\ (TypesKnown(fn.in) /\ \A i \in 1..Len(fn.in) : ~SameColumnTwice(fn.in[i]))
              => fn.out[1].err = "Duplicated table name"

\* what does hold: table names that differ in case only are not parsed
\* (the error names a duplicated column)
CaseDuplicateFails ==
    (/\ fn.op = "parse"
     /\ fn.out[1] # NotParsed
     /\ Len(fn.in) = 2
     /\ fn.in[1].TableName # fn.in[2].TableName
     /\ LowerName(fn.in[1].TableName) = LowerName(fn.in[2].TableName)) => fn.out[1].err # OK

\* C29: a specification in which two columns of one table, user-mapped or
\* system, have the same name once lowercased is not parsed: the error is that
\* of a duplicated column
DuplicateColumnsRejected ==
    (/\ fn.op = "parse"
     /\ fn.out[1] # NotParsed
     /\ TypesKnown(fn.in)
     /\ \E i \in 1..Len(fn.in) : SameColumnTwice(fn.in[i])) => fn.out[1].err = "Duplicated column name"

\* what does hold: two columns of one name are found when neither stands under
\* the label of a global column and no later entry replaces the table
UserDuplicateRejected ==
    (/\ fn.op = "parse"
     /\ fn.out[1] # NotParsed
     /\ TypesKnown(fn.in)
     /\ \A i, k \in 1..Len(fn.in) : i # k => fn.in[i].TableName # fn.in[k].TableName
     /\ \E i \in 1..Len(fn.in) :
           /\ SameColumnTwice(fn.in[i])
           /\ DOMAIN fn.in[i].Columns \cap DOMAIN getGlobalColumns = {}) => fn.out[1].err = "Duplicated column name"

\* C30: two parses of one specification give every column the same order, and
\* the same CREATE TABLE statements
SameOrderEveryParse ==
    (fn.op = "parse" /\ fn.done /\ fn.out[1].err = OK /\ fn.out[2].err = OK) =>
        /\ \A n \in DOMAIN fn.out[1].Tables : \A f \in DOMAIN fn.out[1].Tables[n].Columns :
              fn.out[1].Tables[n].Columns[f].Order = fn.out[2].Tables[n].Columns[f].Order
        /\ \A n \in DOMAIN fn.out[1].Tables :
              CreateTableColumns(fn.out[1].Tables[n]) = CreateTableColumns(fn.out[2].Tables[n])

\* what does hold: the global columns have their fixed places in every parse
GlobalColumnsFirst ==
    (fn.op = "parse" /\ fn.done /\ fn.out[1].err = OK /\ fn.out[2].err = OK) =>
        \A n \in DOMAIN fn.out[1].Tables : \A l \in DOMAIN getGlobalColumns :
           /\ fn.out[1].Tables[n].Columns[l].Order = getGlobalColumns[l].Order
           /\ fn.out[2].Tables[n].Columns[l].Order = getGlobalColumns[l].Order

\* no table name, lowercased, is the beginning of another one
PrefixFree(eventSpec) ==
    \A i, k \in 1..Len(eventSpec) :
        i # k => ~HasPrefix(LowerName(eventSpec[k].TableName), LowerName(eventSpec[i].TableName))

\* the tables have different names once lowercased and no entry declares two
\* columns of one name once lowercased
NoDuplicates(eventSpec) ==
    /\ ~SameTableTwice(eventSpec)
    /\ \A i \in 1..Len(eventSpec) : ~SameColumnTwice(eventSpec[i])

\* C40: a specification whose tables have pairwise different lowercased names
\* and in which no table has two columns of one lowercased name is never
\* refused with the duplicated-column error, whatever the names are
NoFalseDuplicate ==
    (fn.op = "parse" /\ fn.out[1] # NotParsed /\ NoDuplicates(fn.in)) =>
        fn.out[1].err # "Duplicated column name"

\* what does hold: no such error when no table name is the beginning of another
NoFalseDuplicatePrefixFree ==
    (fn.op = "parse" /\ fn.out[1] # NotParsed /\ NoDuplicates(fn.in) /\ PrefixFree(fn.in)) =>
        fn.out[1].err # "Duplicated column name"

\* the order values of the columns of a table are 1..n, the global columns
\* have theirs and the user columns the rest
DenseOrder(table) ==
    LET columns == table.Columns
        n == Cardinality(DOMAIN columns)
    IN /\ {columns[f].Order : f \in DOMAIN columns} = 1..n
       /\ \A l \in DOMAIN getGlobalColumns : columns[l].Order = getGlobalColumns[l].Order
       /\ \A f \in DOMAIN columns \ DOMAIN getGlobalColumns : columns[f].Order \in 5..n

\* C31: in every table of a successful parse the order values are exactly 1..n,
\* _height 1, _txhash 2, _eventtype 3, _eventname 4, the user columns 5..n, also
\* when a field of the column map is the label of a global column
DenseColumnOrder ==
    (fn.op = "parse" /\ fn.out[1] # NotParsed /\ fn.out[1].err = OK) =>
        \A n \in DOMAIN fn.out[1].Tables : DenseOrder(fn.out[1].Tables[n])

\* what does hold: the order is dense when no field of the column map is the
\* label of a global column
DenseOrderWithoutLabels ==
    (/\ fn.op = "parse"
     /\ fn.out[1] # NotParsed
     /\ fn.out[1].err = OK
     /\ \A i \in 1..Len(fn.in) : DOMAIN fn.in[i].Columns \cap DOMAIN getGlobalColumns = {}) =>
        \A n \in DOMAIN fn.out[1].Tables : DenseOrder(fn.out[1].Tables[n])

\* the names a user column may not have
ReservedNames ==
    {<<"_", "i", "d">>,
     <<"_", "t", "i", "m", "e", "s", "t", "a", "m", "p">>,
     <<"_", "h", "e", "i", "g", "h", "t">>,
     <<"_", "t", "x", "h", "a", "s", "h">>,
     <<"_", "e", "v", "e", "n", "t", "t", "y", "p", "e">>,
     <<"_", "e", "v", "e", "n", "t", "n", "a", "m", "e">>,
     <<"_", "e", "v", "e", "n", "t", "f", "i", "l", "t", "e", "r">>,
     <<"_", "t", "a", "b", "l", "e", "n", "a", "m", "e">>,
     <<"_", "r", "o", "w", "c", "o", "u", "n", "t">>,
     <<"_", "a", "c", "t", "i", "o", "n">>,
     <<"_", "i", "n", "d", "e", "x">>,
     <<"_", "b", "l", "o", "c", "k", "h", "e", "a", "d", "e", "r">>,
     <<"_", "t", "x", "t", "y", "p", "e">>,
     <<"_", "e", "n", "v", "e", "l", "o", "p", "e">>,
     <<"_", "e", "v", "e", "n", "t", "s">>,
     <<"_", "r", "e", "s", "u", "l", "t">>,
     <<"_", "r", "e", "c", "e", "i", "p", "t">>,
     <<"_", "e", "x", "c", "e", "p", "t", "i", "o", "n">>}

\* some user column of the specification has a reserved name
UsesReservedName(eventSpec) ==
    \E i \in 1..Len(eventSpec) : \E f \in DOMAIN eventSpec[i].Columns :
       LowerName(eventSpec[i].Columns[f].Name) \in ReservedNames

\* C32: a specification in which a user column has a reserved system column
\* name is not parsed
ReservedNamesRejected ==
    (fn.op = "parse" /\ fn.out[1] # NotParsed /\ UsesReservedName(fn.in)) => fn.out[1].err # OK

\* what does hold: the name of a global column is refused for a user column
\* that does not stand under a global label, in a table no later entry replaces
GlobalNameRejected ==
    (/\ fn.op = "parse"
     /\ fn.out[1] # NotParsed
     /\ \A i, k \in 1..Len(fn.in) : i # k => fn.in[i].TableName # fn.in[k].TableName
     /\ \E i \in 1..Len(fn.in) : \E f \in DOMAIN fn.in[i].Columns \ DOMAIN getGlobalColumns :
           \E l \in DOMAIN GlobalName : LowerName(fn.in[i].Columns[f].Name) = GlobalName[l]) => fn.out[1].err # OK

-----------------------------------------------------------------------------
(* Part XVII: createTable and the order values of the columns *)

\* the order values a column may come with: none, 1..3, one and two beyond the columns
OrderValues == 0..5

\* t1 with three columns of any order values, in the order createTable ranges over them
OrderTables ==
    {[Name |-> "t1",
      Columns |-> <<SQLTableColumn(names[1], names[1] = "k", o1),
                    SQLTableColumn(names[2], names[2] = "k", o2),
                    SQLTableColumn(names[3], names[3] = "k", o3)>>] :
        names \in Orders({"k", "v", "w"}), o1 \in OrderValues, o2 \in OrderValues, o3 \in OrderValues}

InitCreate ==
    /\ \E table \in OrderTables :
          fn = [op |-> "createTable", in |-> table, out |-> [err |-> OK, db |-> EmptyDB], done |-> FALSE]
    /\ RestDB
    /\ RestSync
    /\ RestReplay
    /\ RestRun
    /\ RestFilters
    /\ RestKill
    /\ RestDrift
    /\ RestRows
    /\ RestCon

CreateTable ==
    /\ fn.op = "createTable"
    /\ ~fn.done
    /\ fn' = [fn EXCEPT !.out = createTable(EmptyDB, fn.in), !.done = TRUE]
    /\ UNCHANGED besidesFn

NextCreate == CreateTable

SpecCreate == InitCreate /\ [][NextCreate]_vars

\* the order values of the columns are exactly 1..n
OrdersDense(table) == {table.Columns[i].Order : i \in 1..Len(table.Columns)} = 1..Len(table.Columns)

\* C33: for every table whose order values are not exactly 1..n (an order
\* <= 0, an order beyond the columns, n + 1 included, or an order twice)
\* createTable returns a table definition error, without a statement and without a panic
OrderValidation ==
    (fn.op = "createTable" /\ fn.done /\ ~OrdersDense(fn.in)) =>
        /\ fn.out.err = errTableDef
        /\ fn.out.db = EmptyDB

\* what does hold: no statement is issued for such a table, and the error is
\* the table definition error unless a column has the order n + 1
OrderValidationBelow ==
    (fn.op = "createTable" /\ fn.done /\ ~OrdersDense(fn.in)) =>
        /\ fn.out.db = EmptyDB
        /\ fn.out.err \in {errTableDef, errPanic}
        /\ (\A i \in 1..Len(fn.in.Columns) : fn.in.Columns[i].Order # Len(fn.in.Columns) + 1)
              => fn.out.err = errTableDef

-----------------------------------------------------------------------------
(* Part XVIII: alterTable, by dialect *)

\* a database in which the table exists with some of its columns, the
\* dictionary knowing the same
HavingColumns(tname, have, key) ==
    [EmptyDB EXCEPT !.live[tname] = [exists |-> TRUE, cols |-> have, pkey |-> key],
                    !.dict = {<<tname, c>> : c \in have}]

InitAlter ==
    /\ \E dialect \in {"postgres", "sqlite"} : \E t \in {Table1, Table1Height, Table2Height} :
       \E o \in Orders(1..Len(t.Columns)) : \E have \in (SUBSET ColumnNames(t)) \ {{}} :
          fn = [op |-> "alterTable",
                in |-> [dialect |-> dialect,
                        table |-> [Name |-> t.Name, Columns |-> [i \in 1..Len(t.Columns) |-> t.Columns[o[i]]]],
                        have |-> have],
                out |-> [err |-> OK, db |-> HavingColumns(t.Name, have, "k" \in have)],
                done |-> FALSE]
    /\ RestDB
    /\ RestSync
    /\ RestReplay
    /\ RestRun
    /\ RestFilters
    /\ RestKill
    /\ RestDrift
    /\ RestRows
    /\ RestCon

\* alterTable with the statements of the adapter
AlterTable ==
    /\ fn.op = "alterTable"
    /\ ~fn.done
    /\ LET r == IF fn.in.dialect = "postgres" THEN alterTablePg(fn.out.db, fn.in.table)
                ELSE alterTable(fn.out.db, fn.in.table)
       IN fn' = [fn EXCEPT !.out = [err |-> r.err, db |-> r.db], !.done = TRUE]
    /\ UNCHANGED besidesFn

NextAlter == AlterTable

SpecAlter == InitAlter /\ [][NextAlter]_vars

\* the statement the adapter of the dialect builds to add the column
AlterStatement(dialect, tableName, columnName) ==
    IF dialect = "postgres" THEN GetAlterColumnQuery(tableName, columnName)
    ELSE AlterColumnQuery(tableName, columnName)

\* C34: for every dialect the statement that adds a missing column names that
\* column as the one to add to the table, and after alterTable succeeded the
\* live table has every declared column
AlterAddsColumn ==
    (fn.op = "alterTable" /\ fn.done) =>
        LET t == fn.in.table IN
        /\ \A c \in ColumnNames(t) \ fn.in.have :
              AlterStatement(fn.in.dialect, t.Name, c) = [table |-> t.Name, column |-> c]
        /\ fn.out.err = OK => ColumnNames(t) \subseteq fn.out.db.live[t.Name].cols

\* what does hold: with the statements of the SQLite adapter alterTable
\* succeeds and the live table has every declared column
SQLiteAlterAddsColumn ==
    (fn.op = "alterTable" /\ fn.in.dialect = "sqlite") =>
        LET t == fn.in.table IN
        /\ \A c \in ColumnNames(t) \ fn.in.have :
              AlterStatement(fn.in.dialect, t.Name, c) = [table |-> t.Name, column |-> c]
        /\ fn.done => (fn.out.err = OK /\ ColumnNames(t) \subseteq fn.out.db.live[t.Name].cols)

-----------------------------------------------------------------------------
(* Part XIX: the life of a Consumer: Run from its call to its return, and
   Shutdown called from another goroutine at any moment *)

MaxShutdowns == 2    \* calls of Shutdown

\* the process has not died of a panic
Alive == con.shut # "panic"

\* Run returns: the deferred GRPCConnection.Close() runs if the defer was reached
RunReturn(result, deferred) ==
    [con EXCEPT !.run = "returned", !.result = result,
                !.GRPCConnection = IF deferred THEN "closed" ELSE @]

\* go consumer.Run(...); no event specification: return nil
RunCall ==
    /\ Alive
    /\ con.run = "new"
    /\ \/ con' = [con EXCEPT !.run = "connect"]
       \/ con' = RunReturn("nil", FALSE)
    /\ UNCHANGED besidesCon

\* sqldb.NewSQLDB
RunConnect ==
    /\ Alive
    /\ con.run = "connect"
    /\ \/ con' = [con EXCEPT !.run = "sync"]
       \/ con' = RunReturn("err", FALSE)
    /\ UNCHANGED besidesCon

\* c.DB.SynchronizeDB(tables)
RunSynchronize ==
    /\ Alive
    /\ con.run = "sync"
    /\ \/ con' = [con EXCEPT !.run = "dial"]
       \/ con' = RunReturn("err", FALSE)
    /\ UNCHANGED besidesCon

\* c.GRPCConnection, err = grpc.Dial(...): the connection, or nil and an error
RunDial ==
    /\ Alive
    /\ con.run = "dial"
    /\ \/ con' = [con EXCEPT !.run = "receiving", !.GRPCConnection = "open"]
       \/ con' = RunReturn("err", FALSE)
    /\ UNCHANGED besidesCon

\* the receiver ends and the main loop returns: nil once Closing is set, an
\* error of the stream or of SetBlock at any time
RunEnd ==
    /\ Alive
    /\ con.run = "receiving"
    /\ \/ con.Closing /\ con' = RunReturn("nil", TRUE)
       \/ con' = RunReturn("err", TRUE)
    /\ UNCHANGED besidesCon

\* consumer.Shutdown() is called
ShutdownCall ==
    /\ con.shut \in {"none", "done"}
    /\ con.calls < MaxShutdowns
    /\ con' = [con EXCEPT !.shut = "entered", !.at = con.run, !.calls = @ + 1,
                          !.dialed = con.GRPCConnection # "nil"]
    /\ UNCHANGED besidesCon

\* c.Closing = true
ShutdownClosing ==
    /\ con.shut = "entered"
    /\ con' = [con EXCEPT !.shut = "close", !.Closing = TRUE]
    /\ UNCHANGED besidesCon

\* the values the read of c.GRPCConnection can give: the field is written by Run
\* and read here without synchronization, so a write made after Shutdown was
\* entered may be missed
ReadGRPCConnection ==
    {con.GRPCConnection} \cup (IF con.dialed THEN {} ELSE {"nil"})

\* (*grpc.ClientConn).Close(): a nil receiver is dereferenced, a connection
\* that is open is closed, one that is closed stays closed
Close(conn) == IF conn = "nil" THEN "panic" ELSE "closed"

\* c.GRPCConnection.Close()
ShutdownClose ==
    /\ con.shut = "close"
    /\ \E conn \in ReadGRPCConnection :
          IF Close(conn) = "panic"
          THEN con' = [con EXCEPT !.shut = "panic"]
          ELSE con' = [con EXCEPT !.shut = "done", !.GRPCConnection = Close(conn)]
    /\ UNCHANGED besidesCon

InitCon ==
    /\ con = NoConsumer
    /\ RestDB
    /\ RestSync
    /\ RestReplay
    /\ RestRun
    /\ RestFilters
    /\ RestKill
    /\ RestDrift
    /\ RestRows
    /\ RestFn

NextCon ==
    \/ RunCall
    \/ RunConnect
    \/ RunSynchronize
    \/ RunDial
    \/ RunEnd
    \/ ShutdownCall
    \/ ShutdownClosing
    \/ ShutdownClose

SpecCon == InitCon /\ [][NextCon]_vars

\* C38: Shutdown may be called in any state of the consumer (before Run, while
\* Run has not yet set GRPCConnection, while receiving, after Run returned);
\* it sets Closing and completes without failure
ShutdownSafeAnytime ==
    /\ con.shut # "panic"
    /\ con.shut = "done" => con.Closing

\* a Shutdown entered when the connection was set sets Closing and completes
ShutdownSafeOnceDialed ==
    /\ con.dialed => con.shut # "panic"
    /\ con.shut = "done" => con.Closing

-----------------------------------------------------------------------------
(* Part XX: the height a run starts from: SetBlock logs the height of the
   batch as a string, the next Run reads it back and converts it *)

errSyntax == "strconv.ErrSyntax"
errRange == "strconv.ErrRange"

\* 1<<64 - 1 in decimal digits
MaxUint64 ==
    <<"1", "8", "4", "4", "6", "7", "4", "4", "0", "7", "3", "7", "0", "9", "5", "5", "1", "6", "1", "5">>

\* the letters short heights are made of
HeightLetters == {"0", "1", "9", "A", "-"}

\* the height of the test data of the adapter
TestHeight ==
    <<"0", "1", "2", "3", "4", "5", "6", "7", "8", "9", "A", "B", "C", "D", "E", "F", "0">>

\* heights a batch may carry: short strings, the largest uint64, the number
\* after it, the largest with a zero in front, a number of 21 digits
HeightStrings ==
    {<<>>} \cup {<<a>> : a \in HeightLetters} \cup {<<a, b>> : a, b \in HeightLetters}
        \cup {TestHeight, MaxUint64, [MaxUint64 EXCEPT ![20] = "6"], <<"0">> \o MaxUint64, MaxUint64 \o <<"0">>}

DigitValue(c) == CHOOSE n \in 0..9 : Itoa(n) = c

\* the decimal digits of a number without zeros in front
RECURSIVE Canonical(_)
Canonical(digits) ==
    IF Len(digits) > 1 /\ Head(digits) = "0" THEN Canonical(Tail(digits)) ELSE digits

\* a > b for numbers written without zeros in front
RECURSIVE GreaterDigits(_, _)
GreaterDigits(a, b) ==
    IF Len(a) # Len(b) THEN Len(a) > Len(b)
    ELSE IF Len(a) = 0 THEN FALSE
    ELSE IF Head(a) # Head(b) THEN DigitValue(Head(a)) > DigitValue(Head(b))
    ELSE GreaterDigits(Tail(a), Tail(b))

\* strconv.ParseUint(s, 10, 64) from the i-th byte on, n the number so far: a
\* byte that is no digit is a syntax error, a number above 1<<64 - 1 a range error
RECURSIVE ParseUint(_, _, _)
ParseUint(str, i, n) ==
    IF Len(str) = 0 THEN [value |-> <<"0">>, err |-> errSyntax]
    ELSE IF i > Len(str) THEN [value |-> n, err |-> OK]
    ELSE IF ~IsDigit(str[i]) THEN [value |-> <<"0">>, err |-> errSyntax]
    ELSE IF GreaterDigits(Canonical(Append(n, str[i])), MaxUint64) THEN [value |-> MaxUint64, err |-> errRange]
    ELSE ParseUint(str, i + 1, Canonical(Append(n, str[i])))

\* the batch of a block of the given height: one row for t1, or one for each table
HeightBatches(height) ==
    {AddRow(NewBlockData(height), "t1", [k |-> 1, v |-> "a"]),
     AddRow(AddRow(NewBlockData(height), "t1", [k |-> 1, v |-> "a"]), "t2", [k |-> 2])}

InitResume ==
    /\ fn \in {[op |-> "resume", in |-> b, out |-> [db |-> SyncedDB, err |-> OK, start |-> <<>>], done |-> FALSE] :
                   b \in UNION {HeightBatches(h) : h \in HeightStrings}}
    /\ RestDB
    /\ RestSync
    /\ RestReplay
    /\ RestRun
    /\ RestFilters
    /\ RestKill
    /\ RestDrift
    /\ RestRows
    /\ RestCon

\* c.DB.SetBlock(tables, blk) of the run that receives the block
ResumeWrite ==
    /\ fn.op = "resume"
    /\ fn.out.start = <<>>
    /\ Len(fn.out.db.log) = 0
    /\ LET r == SetBlock(fn.out.db, FullOrder, fn.in, MaxDepth)
       IN fn' = [fn EXCEPT !.out = [db |-> r.db, err |-> r.err, start |-> <<>>]]
    /\ UNCHANGED besidesFn

\* the next run: fromBlock, err := c.DB.GetLastBlockID();
\* startingBlock, err := strconv.ParseUint(fromBlock, 10, 64)
ResumeStart ==
    /\ fn.op = "resume"
    /\ ~fn.done
    /\ Len(fn.out.db.log) > 0
    /\ LET r == ParseUint(GetLastBlockID(fn.out.db), 1, <<>>)
       IN fn' = [fn EXCEPT !.out.start = r.value, !.out.err = r.err, !.done = TRUE]
    /\ UNCHANGED besidesFn

NextResume ==
    \/ ResumeWrite
    \/ ResumeStart

SpecResume == InitResume /\ [][NextResume]_vars

\* the height was logged by a SetBlock that returned nil and the next run has
\* read it back and converted it
Resumed == fn.op = "resume" /\ fn.done /\ GetLastBlockID(fn.out.db) = fn.in.Block

\* C39: every height that SetBlock accepts and logs is read back by the next
\* run and converted to the start of the subscription without error
ResumeAnyHeight == Resumed => fn.out.err = OK

\* a height made of decimal digits that is at most 1<<64 - 1 is converted, to
\* the number it spells; every other height is refused
ResumeDecimalHeight ==
    Resumed =>
        IF /\ Len(fn.in.Block) > 0
           /\ \A i \in 1..Len(fn.in.Block) : IsDigit(fn.in.Block[i])
           /\ ~GreaterDigits(Canonical(fn.in.Block), MaxUint64)
        THEN fn.out.err = OK /\ fn.out.start = Canonical(fn.in.Block)
        ELSE fn.out.err \in {errSyntax, errRange}
====
